---------------------------- MODULE Spec2Model ----------------------------
(***************************************************************************)
(* A model of skeleton.py (The Skeleton Key): the four keyword-density     *)
(* detectors, the InfluenceGraph, the CrumbTrail store with its JSON       *)
(* persistence, and the CollectiveInsight aggregator.                      *)
(*                                                                         *)
(* Conventions.  Python strings are TLA+ strings; str operations are       *)
(* computed character by character with SubSeq.  Python None is the value  *)
(* None, JSON null the value JsonNull.  A float that the code computes     *)
(* from small integers is kept as an exact fraction [num, den].  A dict    *)
(* is a function on its key set.  uuid4() values are drawn in order from   *)
(* a counter (Uuid), timestamps from a clock.                              *)
(***************************************************************************)
EXTENDS Integers, Sequences, FiniteSets, TLC

(***************************************************************************)
(* III. KNOWLEDGE STRUCTURES: the four Signal Tables, copied keyword by    *)
(* keyword, in the source's insertion order.                               *)
(***************************************************************************)

\* FRAME_SIGNALS: src/skeleton.py lines 385-474 (insertion order kept).
FRAME_SIGNALS ==
  <<
    [type |-> "NORMATIVE",
     signals |-> <<
       "normal", "natural", "obvious", "common sense", "everyone knows",
       "that's just how it is", "tradition", "always been", "standard",
       "the way things work", "realistic", "pragmatic", "inevitable", "human nature",
       "the real world"
     >>,
     question |-> "What would change if this were seen as a choice rather than a fact?",
     reveals |-> "Normative frames disguise social constructions as natural law.",
     antidote |-> "Ask: who decided this was 'normal,' and when?"
    ],
    [type |-> "LINGUISTIC",
     signals |-> <<
       "stakeholder", "human resources", "collateral damage", "externality", "disruption",
       "optimization", "leverage", "synergy", "alignment", "market forces", "talent",
       "assets", "capital", "deliverables", "value proposition", "growth", "scale"
     >>,
     question |-> "What does this language conceal about who is affected and how?",
     reveals |-> "Linguistic frames make violence abstract and people into resources.",
     antidote |-> "Replace each term with plain language and notice what changes."
    ],
    [type |-> "INSTITUTIONAL",
     signals |-> <<
       "policy", "procedure", "compliance", "regulation", "governance", "protocol",
       "due process", "standard operating", "best practice", "industry standard",
       "accreditation", "certification", "authorized", "official channels",
       "chain of command"
     >>,
     question |-> "Who wrote these rules, and what do they protect?",
     reveals |-> "Institutional frames make power arrangements feel like physics.",
     antidote |-> "Trace each rule to its origin. Someone wrote it. Someone benefits."
    ],
    [type |-> "TEMPORAL",
     signals |-> <<
       "progress", "inevitable", "the future", "moving forward", "behind the times",
       "modernization", "next generation", "legacy", "outdated", "evolving", "trajectory",
       "momentum", "disruption cycle", "paradigm shift", "the arc of history",
       "tipping point"
     >>,
     question |-> "Whose timeline is this, and what does it erase?",
     reveals |-> "Temporal frames make one group's trajectory feel like destiny.",
     antidote |-> "Ask: inevitable for whom? Progress toward what? Decided by whom?"
    ],
    [type |-> "EPISTEMIC",
     signals |-> <<
       "evidence-based", "data-driven", "peer-reviewed", "scientific consensus",
       "expert opinion", "credible sources", "methodology", "rigorous",
       "statistically significant", "empirical", "objective", "measurable", "anecdotal",
       "unsubstantiated", "misinformation"
     >>,
     question |-> "What ways of knowing are being excluded, and why?",
     reveals |-> "Epistemic frames determine what counts as knowledge - and who counts as a knower.",
     antidote |-> "Ask: what would a different discipline, culture, or tradition see here?"
    ],
    [type |-> "ECONOMIC",
     signals |-> <<
       "market", "efficiency", "roi", "cost-benefit", "productivity", "scarcity",
       "supply and demand", "rational actor", "incentive", "GDP", "profit margin",
       "bottom line", "valuation", "monetize", "free market", "competition",
       "shareholder value"
     >>,
     question |-> "What is being valued, and what is being discarded?",
     reveals |-> "Economic frames reduce all value to a single metric and hide the rest.",
     antidote |-> "Name three things this framework cannot measure but that matter enormously."
    ],
    [type |-> "TECHNOLOGICAL",
     signals |-> <<
       "platform", "algorithm", "AI", "automation", "machine learning",
       "digital transformation", "smart", "cloud", "API", "ecosystem", "scalable",
       "disruptive", "innovation", "tech-enabled", "frictionless", "seamless",
       "personalized"
     >>,
     question |-> "What human decisions are hidden inside this technology?",
     reveals |-> "Technological frames make human choices appear as neutral computation.",
     antidote |-> "Find the humans. Someone designed this. Someone chose the training data. Someone profits."
    ],
    [type |-> "MYTHOLOGICAL",
     signals |-> <<
       "founding fathers", "self-made", "American dream", "invisible hand", "meritocracy",
       "free world", "civilization", "manifest destiny", "the people", "our values",
       "who we are", "heritage", "legacy", "promised land", "chosen", "destiny", "greatness"
     >>,
     question |-> "What does this myth authorize, and what does it forbid?",
     reveals |-> "Mythological frames sacralize power arrangements so they cannot be questioned.",
     antidote |-> "Tell the same story from the perspective of those the myth excludes."
    ]
  >>

\* MASK_SIGNALS: src/skeleton.py lines 477-543 (insertion order kept).
MASK_SIGNALS ==
  <<
    [type |-> "AUTHORITY",
     signals |-> <<
       "leadership", "executive", "decision-maker", "vision", "strategy", "mandate",
       "direction", "C-suite", "board", "governance"
     >>,
     behind_the_mask |-> "Power is often held not by the visible leaders but by those who set the agenda they enact.",
     slip_indicators |-> <<"contradicts own policy", "defers upward", "cannot explain rationale", "reads from script">>
    ],
    [type |-> "BENEVOLENCE",
     signals |-> <<
       "for your own good", "we care", "protecting", "safety", "support", "help",
       "empower", "serve", "community", "wellbeing"
     >>,
     behind_the_mask |-> "Care rhetoric often masks control. True care shares power; false care hoards it.",
     slip_indicators |-> <<"help requires compliance", "support has conditions", "empowerment means obedience">>
    ],
    [type |-> "NEUTRALITY",
     signals |-> <<
       "objective", "balanced", "both sides", "unbiased", "fair", "neutral", "apolitical",
       "nonpartisan", "just the facts", "centrist"
     >>,
     behind_the_mask |-> "Claimed neutrality always serves the status quo. The center is not neutral - it is the current arrangement of power.",
     slip_indicators |-> <<"frames challengers as extreme", "treats current system as baseline", "equates critique with bias">>
    ],
    [type |-> "MERITOCRACY",
     signals |-> <<
       "earned", "deserved", "talent", "hard work", "achievement", "performance",
       "best and brightest", "top tier", "elite", "competitive"
     >>,
     behind_the_mask |-> "Meritocracy narratives attribute systemic outcomes to individual qualities, hiding the architecture of advantage.",
     slip_indicators |-> <<"success correlates with starting position", "failure blamed on individual", "structural advantages unnamed">>
    ],
    [type |-> "INEVITABILITY",
     signals |-> <<
       "no alternative", "the only way", "necessary", "unavoidable", "market forces",
       "economic reality", "there is no choice", "we must", "the situation demands",
       "forced by circumstances"
     >>,
     behind_the_mask |-> "Inevitability is the most powerful mask. When choices vanish, power becomes invisible.",
     slip_indicators |-> <<"alternatives existed historically", "other systems do it differently", "someone benefits from 'no choice'">>
    ],
    [type |-> "TRADITION",
     signals |-> <<
       "always been done", "heritage", "custom", "roots", "values", "time-tested",
       "wisdom of the ages", "sacred", "founding principles"
     >>,
     behind_the_mask |-> "Tradition selectively remembers. What is called 'traditional' was once someone's radical innovation.",
     slip_indicators |-> <<"the 'tradition' is recent", "it was contested when introduced", "other traditions are excluded">>
    ],
    [type |-> "INNOVATION",
     signals |-> <<
       "disrupt", "transform", "revolutionize", "cutting-edge", "future", "breakthrough",
       "paradigm shift", "next generation", "reimagine"
     >>,
     behind_the_mask |-> "Innovation rhetoric often masks extraction. 'Disruption' frequently means destroying what communities built and selling it back.",
     slip_indicators |-> <<"innovation benefits investors most", "disrupted communities not consulted", "problems recreated at scale">>
    ],
    [type |-> "EXPERTISE",
     signals |-> <<
       "expert", "specialist", "authority", "credentials", "certification", "qualified",
       "trained", "professional", "accredited", "peer-reviewed"
     >>,
     behind_the_mask |-> "Expertise is real, but the gatekeeping of expertise is a power structure. Who decides what counts as knowing?",
     slip_indicators |-> <<"experts disagree but one view dominates", "credentials gate access", "lived experience dismissed">>
    ]
  >>

\* SPELL_SIGNALS: src/skeleton.py lines 546-619 (insertion order kept).
SPELL_SIGNALS ==
  <<
    [type |-> "ORIGIN_MYTH",
     signals |-> <<
       "founded", "began", "origin", "genesis", "founding", "started with", "our story",
       "once upon", "in the beginning", "from humble beginnings"
     >>,
     emotional_hook |-> "Belonging, legitimacy, pride",
     hidden_function |-> "Creates loyalty by making the listener part of a sacred story",
     breaking_question |-> "What does this origin story leave out? Who was already here?"
    ],
    [type |-> "PROGRESS_NARRATIVE",
     signals |-> <<
       "better", "improving", "growing", "advancing", "developing", "more than ever",
       "unprecedented", "next level", "forward"
     >>,
     emotional_hook |-> "Hope, optimism, participation",
     hidden_function |-> "Makes current trajectory feel inevitable and good; resistance feels regressive",
     breaking_question |-> "Better for whom? By whose metric? At what cost to what?"
    ],
    [type |-> "FEAR_NARRATIVE",
     signals |-> <<
       "threat", "danger", "crisis", "enemy", "collapse", "catastrophe",
       "if we don't act now", "at risk", "under attack", "existential"
     >>,
     emotional_hook |-> "Fear, urgency, tribal bonding",
     hidden_function |-> "Justifies extreme measures and suppresses dissent ('now is not the time')",
     breaking_question |-> "Who benefits from this fear? What becomes possible when people are afraid?"
    ],
    [type |-> "SCARCITY_SPELL",
     signals |-> <<
       "not enough", "limited", "scarce", "running out", "competition", "zero-sum",
       "fight for", "earn your place", "only the best"
     >>,
     emotional_hook |-> "Anxiety, competition, hoarding instinct",
     hidden_function |-> "Prevents solidarity by making people see each other as competitors for artificially limited resources",
     breaking_question |-> "Is this truly scarce, or is access being controlled? By whom?"
    ],
    [type |-> "IDENTITY_SPELL",
     signals |-> <<
       "we are", "our people", "who we are", "our values", "our kind", "real Americans",
       "true believers", "the faithful", "patriots"
     >>,
     emotional_hook |-> "Belonging, exclusion, tribal identity",
     hidden_function |-> "Creates in-group that cannot question without losing identity",
     breaking_question |-> "Who is 'we,' and who is excluded? What happens to those who disagree from within?"
    ],
    [type |-> "COMPLEXITY_SPELL",
     signals |-> <<
       "it's complicated", "you wouldn't understand", "technical", "nuanced",
       "leave it to the experts", "too complex", "sophisticated", "intricate"
     >>,
     emotional_hook |-> "Intellectual insecurity, deference, helplessness",
     hidden_function |-> "Prevents democratic engagement with decisions that affect everyone",
     breaking_question |-> "Is it truly complex, or is complexity being weaponized to exclude?"
    ],
    [type |-> "UNITY_SPELL",
     signals |-> <<
       "together", "united", "one team", "shared purpose", "collective", "all of us",
       "in this together", "common goal", "solidarity"
     >>,
     emotional_hook |-> "Warmth, safety, community feeling",
     hidden_function |-> "Suppresses legitimate disagreement by framing it as betrayal of the group",
     breaking_question |-> "Whose version of 'together'? Who set the terms? Who is silenced by 'unity'?"
    ],
    [type |-> "BINARY_SPELL",
     signals |-> <<
       "either", "or", "with us", "against us", "right side of history", "good vs evil",
       "black and white", "choose a side", "no middle ground"
     >>,
     emotional_hook |-> "Moral clarity, righteousness, urgency",
     hidden_function |-> "Eliminates the third option - the one that would reveal the frame itself",
     breaking_question |-> "What would a third position look like? What does the binary hide?"
    ]
  >>

\* PRISON_SIGNALS: src/skeleton.py lines 622-687 (insertion order kept).
PRISON_SIGNALS ==
  <<
    [type |-> "CHOICE_ARCHITECTURE",
     signals |-> <<
       "option", "plan", "tier", "package", "menu", "choose from", "select", "pick",
       "preference", "customize"
     >>,
     mechanism |-> "Freedom is performed through selection from a pre-curated menu. The menu IS the cage.",
     door |-> "Design your own menu. Ask: what option is missing, and why?"
    ],
    [type |-> "OVERTON_WINDOW",
     signals |-> <<
       "mainstream", "fringe", "extreme", "moderate", "reasonable", "radical",
       "unthinkable", "acceptable", "politically feasible"
     >>,
     mechanism |-> "The range of 'acceptable' opinion is itself a structure of control. Moving the window is a power act.",
     door |-> "Name the idea that cannot be spoken in this space. That is where the wall is."
    ],
    [type |-> "DEBT_STRUCTURE",
     signals |-> <<
       "loan", "mortgage", "tuition", "credit", "payment plan", "interest", "debt",
       "obligation", "owe", "afford"
     >>,
     mechanism |-> "Debt restructures time itself. The indebted cannot afford to question because they cannot afford to lose.",
     door |-> "Calculate the total lifetime interest paid. Follow where it goes. That is the architecture."
    ],
    [type |-> "CREDENTIAL_GATE",
     signals |-> <<
       "degree", "certification", "accreditation", "qualified", "licensed", "authorized",
       "prerequisite", "requirements"
     >>,
     mechanism |-> "Credentials gatekeep knowledge that often came from the uncredentialed. The gate charges rent on the commons.",
     door |-> "Find someone who knows this without the credential. They exist. Ask how they learned."
    ],
    [type |-> "PLATFORM_LOCK",
     signals |-> <<
       "ecosystem", "integration", "compatible", "API", "platform", "migration cost",
       "switching cost", "vendor", "proprietary"
     >>,
     mechanism |-> "Digital dependency creates invisible walls. Your data, your network, your history - held hostage by design.",
     door |-> "Export everything. If you can't, that IS the wall. Build on what you can leave."
    ],
    [type |-> "TEMPORAL_TRAP",
     signals |-> <<
       "busy", "no time", "deadline", "urgent", "ASAP", "bandwidth", "overwhelmed",
       "sprint", "crunch", "hustle"
     >>,
     mechanism |-> "The trap that prevents seeing all other traps. If you have no time to think, you have no time to be free.",
     door |-> "The most radical act may be stopping. Not forever. Just long enough to see."
    ],
    [type |-> "IDENTITY_CAGE",
     signals |-> <<
       "people like us", "that's not who I am", "I could never",
       "that's not for people like me", "stay in your lane", "know your place"
     >>,
     mechanism |-> "Identity becomes a cage when it limits possibility. 'Who you are' becomes 'what you're allowed to want.'",
     door |-> "Try the thing that 'people like you' don't do. The cage is made of stories, not steel."
    ],
    [type |-> "LEARNED_HELPLESSNESS",
     signals |-> <<
       "nothing changes", "what's the point", "they won't let us",
       "it's always been this way", "you can't fight", "too big to change"
     >>,
     mechanism |-> "The most elegant prison. The prisoner maintains their own walls by believing escape is impossible.",
     door |-> "Find one person who escaped. One example breaks the spell. Then find another."
    ]
  >>
(***************************************************************************)
(* Bounds of the model.                                                    *)
(***************************************************************************)

\* Number of fragments a caller's text is composed of.
MaxFragments == 2
\* Number of uuid4() values drawn, and of clock readings taken, in a run.
MaxUuid == 5
MaxClock == 5
\* Number of contribute calls in a run of the aggregator.
MaxContributions == 3
\* Number of contribute calls in a long run of the aggregator (more than
\* HistoryCap, so that the persisted history is cut).
MaxLongRun == 102
MaxEdges == 2

(***************************************************************************)
(* Python str operations.                                                  *)
(***************************************************************************)

None == "<None>"
JsonNull == "<null>"

UpperLetters == "ABCDEFGHIJKLMNOPQRSTUVWXYZ"
LowerLetters == "abcdefghijklmnopqrstuvwxyz"

CharAt(s, i) == SubSeq(s, i, i)

UpperChars == { CharAt(UpperLetters, i) : i \in 1..26 }
LowerChars == { CharAt(LowerLetters, i) : i \in 1..26 }

IsUpperChar(c) == c \in UpperChars
IsLowerChar(c) == c \in LowerChars
IsLetter(c) == IsUpperChar(c) \/ IsLowerChar(c)

ToLower ==
  [c \in UpperChars |->
     CharAt(LowerLetters, CHOOSE i \in 1..26 : CharAt(UpperLetters, i) = c)]
ToUpper ==
  [c \in LowerChars |->
     CharAt(UpperLetters, CHOOSE i \in 1..26 : CharAt(LowerLetters, i) = c)]

LowerChar(c) == IF IsUpperChar(c) THEN ToLower[c] ELSE c
UpperChar(c) == IF IsLowerChar(c) THEN ToUpper[c] ELSE c

\* str.lower()
RECURSIVE LowerRange(_, _, _)
LowerRange(s, i, j) ==
  IF i > j THEN ""
  ELSE IF i = j THEN LowerChar(CharAt(s, i))
  ELSE LET m == (i + j) \div 2
       IN  LowerRange(s, i, m) \o LowerRange(s, m + 1, j)

Lower(s) == LowerRange(s, 1, Len(s))

\* str.title(): the first letter of every run of letters in upper case, the
\* other letters of the run in lower case.
RECURSIVE TitleFrom(_, _)
TitleFrom(s, i) ==
  IF i > Len(s) THEN ""
  ELSE LET c == CharAt(s, i)
           first == i = 1 \/ ~IsLetter(CharAt(s, i - 1))
       IN  (IF first THEN UpperChar(c) ELSE LowerChar(c)) \o TitleFrom(s, i + 1)

Title(s) == TitleFrom(s, 1)

\* str.replace('_', ' ')
RECURSIVE ReplaceUnderscoreFrom(_, _)
ReplaceUnderscoreFrom(s, i) ==
  IF i > Len(s) THEN ""
  ELSE (IF CharAt(s, i) = "_" THEN " " ELSE CharAt(s, i))
         \o ReplaceUnderscoreFrom(s, i + 1)

ReplaceUnderscore(s) == ReplaceUnderscoreFrom(s, 1)

\* `k in t` for two strings: k occurs in t as a substring.
Contains(t, k) ==
  \E i \in 1..(Len(t) - Len(k) + 1) : SubSeq(t, i, i + Len(k) - 1) = k

\* sep.join(seq)
RECURSIVE JoinWith(_, _)
JoinWith(seq, sep) ==
  IF seq = <<>> THEN ""
  ELSE IF Len(seq) = 1 THEN seq[1]
  ELSE seq[1] \o sep \o JoinWith(Tail(seq), sep)

Join(seq) == JoinWith(seq, ", ")

(***************************************************************************)
(* Floats the code computes from small integers, kept as exact fractions.  *)
(***************************************************************************)

Frac(n, d) == [num |-> n, den |-> d]
FracLe(a, b) == a.num * b.den <= b.num * a.den
FracLt(a, b) == a.num * b.den < b.num * a.den
FracEq(a, b) == a.num * b.den = b.num * a.den
FracOne == Frac(1, 1)
FracZero == Frac(0, 1)
FracMin_First(a, b) == a
FracMin(a, b) == IF FracLt(a, b) THEN a ELSE b
FracScale(a, n, d) == Frac(a.num * n, a.den * d)
FracAdd(a, b) ==
  IF a.den = b.den THEN Frac(a.num + b.num, a.den)
  ELSE Frac(a.num * b.den + b.num * a.den, a.den * b.den)
\* sum(fs), from 0
RECURSIVE FracSum(_)
FracSum(fs) ==
  IF fs = <<>> THEN FracZero
  ELSE IF Len(fs) = 1 THEN fs[1]
  ELSE FracAdd(fs[1], FracSum(Tail(fs)))
FracOneMinus_Same(a) == a
FracOneMinus(a) == Frac(a.den - a.num, a.den)

(***************************************************************************)
(* list.sort(key=lambda x: x[0], reverse=True) on a list of                *)
(* [key, item] pairs: Python's sort is stable, also with reverse=True, so  *)
(* pairs with equal keys keep their order.                                 *)
(***************************************************************************)

\* The pair p put into the descending list s behind every pair whose key is
\* not smaller than p's.
RECURSIVE InsertDesc(_, _)
InsertDesc(s, p) ==
  IF s = <<>> THEN <<p>>
  ELSE IF FracLe(p.key, s[1].key) THEN <<s[1]>> \o InsertDesc(Tail(s), p)
  ELSE <<p>> \o s

RECURSIVE SortDescFrom(_, _, _)
SortDescFrom(results, i, acc) ==
  IF i > Len(results) THEN acc
  ELSE SortDescFrom(results, i + 1, InsertDesc(acc, results[i]))

\* the list as the loop built it
SortDesc_AsBuilt(results) == results

SortDesc(results) == SortDescFrom(results, 1, <<>>)

Items(results) == [i \in 1..Len(results) |-> results[i].item]

(***************************************************************************)
(* IV-VII. The detectors.  Finding ids (uuid4) and detection timestamps    *)
(* are not part of a finding here: no operation reads them.                *)
(***************************************************************************)

\* matched = [s for s in signals_data["signals"] if s in text_lower]
Matched(signals, text_lower) ==
  SelectSeq(signals, LAMBDA s : Contains(text_lower, s))

Density(matched, signals) == Frac(Len(matched), Len(signals))

FrameSignalLine(m) == "Signal detected: '" \o m \o "'"

FrameResult(entry, matched) ==
  LET density == Density(matched, entry.signals)
      strength == FracMin(FracScale(density, 2, 1), FracOne)
  IN  [key |-> density,
       item |-> [name |-> Title(entry.type) \o " Frame",
                 frame_type |-> entry.type,
                 description |-> entry.reveals,
                 unspoken_rules |->
                   [i \in 1..Len(matched) |-> FrameSignalLine(matched[i])],
                 naturalized_assumptions |-> <<entry.reveals>>,
                 forbidden_questions |-> <<entry.question>>,
                 beneficiaries |-> <<>>,
                 edges_of_thinkable |-> <<entry.antidote>>,
                 strength |-> strength,
                 visibility |-> FracOneMinus(strength)]]

MaskActor(mask_type) == "[Actor performing " \o mask_type \o "]"

MaskResult(entry, matched) ==
  [key |-> Density(matched, entry.signals),
   item |-> [actor |-> MaskActor(entry.type),
             mask_type |-> entry.type,
             formal_role |-> Join(matched),
             actual_function |-> entry.behind_the_mask,
             performance |-> "Signals: " \o Join(matched),
             hidden_hand |-> entry.behind_the_mask,
             dependencies |-> <<>>,
             vulnerabilities |-> entry.slip_indicators]]

SpellResult(entry, matched) ==
  LET density == Density(matched, entry.signals)
      potency == FracMin(FracScale(density, 5, 2), FracOne)
  IN  [key |-> potency,
       item |-> [name |-> Title(ReplaceUnderscore(entry.type)),
                 spell_type |-> entry.type,
                 narrative |-> "Detected narrative signals: " \o Join(matched),
                 emotional_payload |-> entry.emotional_hook,
                 hidden_assumption |-> entry.hidden_function,
                 erasure |-> "[Requires deeper analysis - what is NOT being said?]",
                 cui_bono |-> "[Follow the benefit - who gains from this belief?]",
                 counter_narrative |-> entry.breaking_question,
                 potency |-> potency,
                 reach |-> density]]

PrisonSignalLine(m) == "Signal: '" \o m \o "'"

PrisonResult(entry, matched) ==
  LET density == Density(matched, entry.signals)
      elegance == FracMin(FracScale(density, 2, 1), FracOne)
  IN  [key |-> elegance,
       item |-> [name |-> Title(ReplaceUnderscore(entry.type)),
                 prison_type |-> entry.type,
                 description |-> entry.mechanism,
                 missing_choices |->
                   <<"[What option would change everything if it appeared?]">>,
                 forbidden_paths |->
                   <<"[What path is not even conceived as possible?]">>,
                 unimaginable_futures |->
                   <<"[What future cannot be imagined from inside this prison?]">>,
                 invisible_walls |->
                   [i \in 1..Len(matched) |-> PrisonSignalLine(matched[i])],
                 exit_conditions |-> <<entry.door>>,
                 elegance |-> elegance]]

MakeResult(kind, entry, matched) ==
  CASE kind = "frame" -> FrameResult(entry, matched)
    [] kind = "mask" -> MaskResult(entry, matched)
    [] kind = "spell" -> SpellResult(entry, matched)
    [] kind = "prison" -> PrisonResult(entry, matched)

\* The loop over a Signal Table: one [key, item] pair per subtype with a
\* non-empty matched list, in table order.  MakeResult is the loop body of
\* the detector named by kind.
\* the loop without `if not matched: continue`
RECURSIVE ScanTable_NoSkip(_, _, _, _)
ScanTable_NoSkip(table, i, text_lower, kind) ==
  IF i > Len(table) THEN <<>>
  ELSE <<MakeResult(kind, table[i], Matched(table[i].signals, text_lower))>>
         \o ScanTable_NoSkip(table, i + 1, text_lower, kind)

RECURSIVE ScanTable(_, _, _, _)
ScanTable(table, i, text_lower, kind) ==
  IF i > Len(table) THEN <<>>
  ELSE LET matched == Matched(table[i].signals, text_lower)
       IN  (IF matched = <<>> THEN <<>> ELSE <<MakeResult(kind, table[i], matched)>>)
             \o ScanTable(table, i + 1, text_lower, kind)

detect_frames(text, context) ==
  LET text_lower == Lower(text) \o " " \o Lower(context)
  IN  Items(SortDesc(ScanTable(FRAME_SIGNALS, 1, text_lower, "frame")))

\* The masks InfluenceGraph.identify_masks builds, before sorting: the
\* method passes them to add_actor in this (table) order.
MaskResults(text) == ScanTable(MASK_SIGNALS, 1, Lower(text), "mask")

SortedMasks(text) == Items(SortDesc(MaskResults(text)))

analyze_spells(text) ==
  Items(SortDesc(ScanTable(SPELL_SIGNALS, 1, Lower(text), "spell")))

map_prisons(text) ==
  Items(SortDesc(ScanTable(PRISON_SIGNALS, 1, Lower(text), "prison")))

(***************************************************************************)
(* II. SystemAnalysis.                                                     *)
(***************************************************************************)

Min(a, b) == IF a <= b THEN a ELSE b
Max(a, b) == IF a >= b THEN a ELSE b

\* SystemAnalysis.awareness_score: the mean of six components, as a
\* fraction over 90 = 6 * lcm(3, 5).
\* the components without their caps
awareness_score_Uncapped(analysis) ==
  Frac(5 * Len(analysis.frames) + 5 * Len(analysis.masks)
         + 5 * Len(analysis.spells) + 5 * Len(analysis.prisons)
         + 3 * Len(analysis.influence_edges)
         + (IF analysis.self_examination # None THEN 15 ELSE 0),
       90)

awareness_score(analysis) ==
  Frac(5 * Min(Len(analysis.frames), 3)
         + 5 * Min(Len(analysis.masks), 3)
         + 5 * Min(Len(analysis.spells), 3)
         + 5 * Min(Len(analysis.prisons), 3)
         + 3 * Min(Len(analysis.influence_edges), 5)
         + (IF analysis.self_examination # None THEN 15 ELSE 0),
       90)

\* The SystemAnalysis that SkeletonKey.analyze assembles for a text.
SystemAnalysis(frames, masks, spells, prisons, self_exam, depth) ==
  [frames |-> frames, masks |-> masks, spells |-> spells, prisons |-> prisons,
   influence_edges |-> <<>>, self_examination |-> self_exam,
   seeing_depth |-> depth]

AnalysisOf(t, depth) ==
  SystemAnalysis(detect_frames(t, ""), SortedMasks(t), analyze_spells(t),
                 map_prisons(t),
                 IF depth \in {"recursive", "integral"} THEN "exam" ELSE None,
                 depth)

\* f"{x:.2f}" for a fraction x in [0, 1] (no x here lies on a rounding tie).
Digit(n) == CharAt("0123456789", n + 1)
Format2(x) ==
  LET h == (200 * x.num + x.den) \div (2 * x.den)
  IN  Digit(h \div 100) \o "." \o Digit((h \div 10) % 10) \o Digit(h % 10)

(***************************************************************************)
(* VIII. CrumbTrail.                                                       *)
(***************************************************************************)

VARIABLES
  trail_id,      \* CrumbTrail.trail_id
  crumbs,        \* CrumbTrail._crumbs
  chains,        \* CrumbTrail._chains: chain_id -> list of crumb ids
  uuid,          \* number of uuid4() values drawn so far
  clock,         \* number of datetime.now() readings so far
  trail_file,    \* the file persist writes: <<>> (missing) or <<snapshot>>
  persisted,     \* the store as it was when persist last ran: <<>> or <<store>>
  trail_loaded   \* the store CrumbTrail.load last returned: <<>> or <<store>>

trailVars ==
  <<trail_id, crumbs, chains, uuid, clock, trail_file, persisted, trail_loaded>>

\* uuid.uuid4().hex[:n], the k-th value drawn
UuidHex(k) == "uuid" \o ToString(k)
\* datetime.now(timezone.utc).isoformat(), the k-th reading
IsoTime(k) == "T" \o ToString(k)

\* class CrumbType(Enum): member values are auto() = 1..7, in this order.
CrumbTypeNames ==
  <<"QUESTION", "PATTERN", "PARADOX", "BRIDGE", "MIRROR", "TRAIL", "SIGNAL">>
CrumbTypeOf(name) == CHOOSE v \in 1..Len(CrumbTypeNames) : CrumbTypeNames[v] = name
QUESTION == CrumbTypeOf("QUESTION")
PATTERN == CrumbTypeOf("PATTERN")
PARADOX == CrumbTypeOf("PARADOX")
BRIDGE == CrumbTypeOf("BRIDGE")
MIRROR == CrumbTypeOf("MIRROR")
TRAIL == CrumbTypeOf("TRAIL")
SIGNAL == CrumbTypeOf("SIGNAL")

\* `a or b` on strings and None
Or(a, b) == IF a = None \/ a = "" THEN b ELSE a

\* dict[key] = [x]: the list under the key replaced
AppendTo_Reset(dict, key, x) ==
  [k \in DOMAIN dict \cup {key} |-> IF k = key THEN <<x>> ELSE dict[k]]

\* dict[key].append(x) on a defaultdict(list)
AppendTo(dict, key, x) ==
  [k \in DOMAIN dict \cup {key} |->
     IF k = key
       THEN (IF key \in DOMAIN dict THEN dict[key] ELSE <<>>) \o <<x>>
       ELSE dict[k]]

EmptyDict == [k \in {} |-> 0]

\* CrumbTrail.drop_crumb on the store st = [trail_id, crumbs, chains, uuid,
\* the new record put in front of the stored ones
drop_crumb_Front(st, content, crumb_type, context, visibility, target_audience, chain_id) ==
  LET crumb == [crumb_id |-> UuidHex(st.uuid),
                crumb_type |-> crumb_type,
                content |-> content,
                context |-> context,
                visibility |-> visibility,
                target_audience |-> target_audience,
                decay_time |-> None,
                chain_id |-> Or(chain_id, st.trail_id),
                created_at |-> IsoTime(st.clock)]
  IN  [st EXCEPT !.crumbs = <<crumb>> \o st.crumbs,
                 !.chains = AppendTo(st.chains, crumb.chain_id, crumb.crumb_id),
                 !.uuid = st.uuid + 1,
                 !.clock = st.clock + 1]

\* clock]: the store after the call.  The new crumb is its last one.
drop_crumb(st, content, crumb_type, context, visibility, target_audience, chain_id) ==
  LET crumb == [crumb_id |-> UuidHex(st.uuid),
                crumb_type |-> crumb_type,
                content |-> content,
                context |-> context,
                visibility |-> visibility,
                target_audience |-> target_audience,
                decay_time |-> None,
                chain_id |-> Or(chain_id, st.trail_id),
                created_at |-> IsoTime(st.clock)]
  IN  [st EXCEPT !.crumbs = Append(st.crumbs, crumb),
                 !.chains = AppendTo(st.chains, crumb.chain_id, crumb.crumb_id),
                 !.uuid = st.uuid + 1,
                 !.clock = st.clock + 1]

\* The drop_crumb calls of generate_from_analysis, in order, without the
\* bridge: [content, crumb_type, context].
RECURSIVE FlattenSeqs(_)
FlattenSeqs(ss) == IF ss = <<>> THEN <<>> ELSE ss[1] \o FlattenSeqs(Tail(ss))

GeneratedCalls(analysis) ==
  FlattenSeqs(
    [i \in 1..Len(analysis.frames) |->
       [j \in 1..Len(analysis.frames[i].forbidden_questions) |->
          [content |-> analysis.frames[i].forbidden_questions[j],
           crumb_type |-> QUESTION,
           context |-> "Generated from " \o analysis.frames[i].name \o " detection"]]])
  \o [i \in 1..Len(analysis.masks) |->
        [content |-> "When you hear '" \o analysis.masks[i].formal_role
                       \o "', look for: " \o analysis.masks[i].actual_function,
         crumb_type |-> PATTERN,
         context |-> "Generated from " \o analysis.masks[i].mask_type
                       \o " mask detection"]]
  \o [i \in 1..Len(analysis.spells) |->
        [content |-> analysis.spells[i].counter_narrative,
         crumb_type |-> PARADOX,
         context |-> "Counter to " \o analysis.spells[i].name]]
  \o FlattenSeqs(
       [i \in 1..Len(analysis.prisons) |->
          [j \in 1..Len(analysis.prisons[i].exit_conditions) |->
             [content |-> analysis.prisons[i].exit_conditions[j],
              crumb_type |-> TRAIL,
              context |-> "Door in " \o analysis.prisons[i].name]]])

BridgeCall(analysis) ==
  [content |-> "This system has " \o ToString(Len(analysis.frames))
                 \o " visible frames, " \o ToString(Len(analysis.masks))
                 \o " masks in play, " \o ToString(Len(analysis.spells))
                 \o " active spells, and " \o ToString(Len(analysis.prisons))
                 \o " prisons operating. Awareness score: "
                 \o Format2(awareness_score(analysis))
                 \o ". The first step is always the same: see.",
   crumb_type |-> BRIDGE,
   context |-> "Meta-analysis bridge"]

\* the bridge appended whatever was generated
AllGeneratedCalls_AlwaysBridge(analysis) ==
  Append(GeneratedCalls(analysis), BridgeCall(analysis))

\* All drop_crumb calls of one generate_from_analysis: the bridge follows
\* iff something was generated.
AllGeneratedCalls(analysis) ==
  LET calls == GeneratedCalls(analysis)
  IN  IF calls # <<>> THEN Append(calls, BridgeCall(analysis)) ELSE calls

RECURSIVE DropAll(_, _, _, _)
DropAll(st, calls, i, chain_id) ==
  IF i > Len(calls) THEN st
  ELSE DropAll(drop_crumb(st, calls[i].content, calls[i].crumb_type,
                          calls[i].context, "hidden", "seekers", chain_id),
               calls, i + 1, chain_id)

\* CrumbTrail.generate_from_analysis: the store after the call.  The
\* returned list is the crumbs the call appended.
generate_from_analysis(st, analysis) ==
  LET chain_id == UuidHex(st.uuid)
  IN  DropAll([st EXCEPT !.uuid = st.uuid + 1], AllGeneratedCalls(analysis), 1,
              chain_id)

\* Crumb.to_dict, then json.dumps: the enum by name, None as null.
ToJson(v) == IF v = None THEN JsonNull ELSE v
FromJson(v) == IF v = JsonNull THEN None ELSE v

CrumbToDict(c) ==
  [crumb_id |-> c.crumb_id,
   crumb_type |-> CrumbTypeNames[c.crumb_type],
   content |-> c.content,
   context |-> c.context,
   visibility |-> c.visibility,
   target_audience |-> c.target_audience,
   decay_time |-> ToJson(c.decay_time),
   chain_id |-> ToJson(c.chain_id),
   created_at |-> c.created_at]

\* A load that does not pass chain_id on to the Crumb it builds.
CrumbFromDict_NoChainId(c_data) ==
  [crumb_id |-> c_data.crumb_id,
   crumb_type |-> CrumbTypeOf(c_data.crumb_type),
   content |-> c_data.content,
   context |-> c_data.context,
   visibility |-> c_data.visibility,
   target_audience |-> c_data.target_audience,
   decay_time |-> FromJson(c_data.decay_time),
   chain_id |-> None,
   created_at |-> c_data.created_at]

\* The Crumb that CrumbTrail.load builds from one entry of data["crumbs"].
CrumbFromDict(c_data) ==
  [crumb_id |-> c_data.crumb_id,
   crumb_type |-> CrumbTypeOf(c_data.crumb_type),
   content |-> c_data.content,
   context |-> c_data.context,
   visibility |-> c_data.visibility,
   target_audience |-> c_data.target_audience,
   decay_time |-> FromJson(c_data.decay_time),
   chain_id |-> FromJson(c_data.chain_id),
   created_at |-> c_data.created_at]

\* The data CrumbTrail.persist writes for a store at time now.
Snapshot(store, now) ==
  [trail_id |-> store.trail_id,
   crumbs |-> [i \in 1..Len(store.crumbs) |-> CrumbToDict(store.crumbs[i])],
   chains |-> store.chains,
   saved_at |-> IsoTime(now)]

\* The store CrumbTrail.load builds from the data of a file.  data.trail_id
\* is never empty (the constructor replaces an empty id), so cls(trail_id=...)
\* keeps it.
LoadSnapshot(data) ==
  [trail_id |-> data.trail_id,
   crumbs |-> [i \in 1..Len(data.crumbs) |-> CrumbFromDict(data.crumbs[i])],
   chains |-> data.chains]

TrailStore == [trail_id |-> trail_id, crumbs |-> crumbs, chains |-> chains]

TrailState ==
  [trail_id |-> trail_id, crumbs |-> crumbs, chains |-> chains,
   uuid |-> uuid, clock |-> clock]

\* CrumbTrail.__init__(trail_id): trail_id or uuid4().hex[:16]
TrailInit(given) ==
  /\ trail_id = Or(given, UuidHex(0))
  /\ uuid = (IF Or(given, None) = None THEN 1 ELSE 0)
  /\ crumbs = <<>>
  /\ chains = EmptyDict
  /\ clock = 0
  /\ trail_file = <<>>
  /\ persisted = <<>>
  /\ trail_loaded = <<>>

\* Arguments the callers of drop_crumb pass.
DropArgs ==
  { [content |-> "who decided?", crumb_type |-> QUESTION, context |-> "",
     visibility |-> "hidden", target_audience |-> "seekers", chain_id |-> None],
    [content |-> "look here", crumb_type |-> SIGNAL, context |-> "wall",
     visibility |-> "public", target_audience |-> "all", chain_id |-> "chain-A"],
    [content |-> "", crumb_type |-> MIRROR, context |-> "",
     visibility |-> "subtle", target_audience |-> "", chain_id |-> ""] }

\* Texts whose analyses the callers pass to generate_from_analysis.
AnalysisTexts ==
  { "", "the market is efficient and this is just common sense",
    "we care; a better option" }

Analyses == { AnalysisOf(t, "structure") : t \in AnalysisTexts }

SetStore(st) ==
  /\ crumbs' = st.crumbs
  /\ chains' = st.chains
  /\ uuid' = st.uuid
  /\ clock' = st.clock
  /\ UNCHANGED trail_id

DropCrumb ==
  /\ uuid < MaxUuid /\ clock < MaxClock
  /\ \E a \in DropArgs :
       SetStore(drop_crumb(TrailState, a.content, a.crumb_type, a.context,
                           a.visibility, a.target_audience, a.chain_id))
  /\ UNCHANGED <<trail_file, persisted, trail_loaded>>

GenerateFromAnalysis ==
  /\ \E analysis \in Analyses :
       /\ uuid + 1 + Len(AllGeneratedCalls(analysis)) <= MaxUuid
       /\ clock + Len(AllGeneratedCalls(analysis)) <= MaxClock
       /\ SetStore(generate_from_analysis(TrailState, analysis))
  /\ UNCHANGED <<trail_file, persisted, trail_loaded>>

\* CrumbTrail.persist, called by one thread at a time.
Persist ==
  /\ clock < MaxClock
  /\ trail_file' = <<Snapshot(TrailStore, clock)>>
  /\ persisted' = <<TrailStore>>
  /\ clock' = clock + 1
  /\ UNCHANGED <<trail_id, crumbs, chains, uuid, trail_loaded>>

\* CrumbTrail.load of the file persist wrote (a missing file raises).
Load ==
  /\ trail_file # <<>>
  /\ trail_loaded' = <<LoadSnapshot(trail_file[1])>>
  /\ UNCHANGED <<trail_id, crumbs, chains, uuid, clock, trail_file, persisted>>

(***************************************************************************)
(* X. CollectiveInsight.                                                   *)
(***************************************************************************)

VARIABLES
  storage_path,        \* CollectiveInsight._storage_path: None or a path
  analyses,            \* _analyses: the history
  frame_frequencies,   \* the four counters: lists of [key, count] in dict
  mask_frequencies,    \*   (insertion) order
  spell_frequencies,
  prison_frequencies,
  total_analyses,      \* _total_analyses
  coll_clock,          \* number of datetime.now() readings of the aggregator
  coll_file,           \* the file at storage_path: <<>> (missing) or <<content>>
  coll_op,             \* what happened last to the aggregator or its file
  coll_raised,         \* the exception it raised to its caller, or None
  coll_result          \* the map it returned: <<>> or <<map>>

collVars ==
  <<storage_path, analyses, frame_frequencies, mask_frequencies,
    spell_frequencies, prison_frequencies, total_analyses, coll_clock,
    coll_file, coll_op, coll_raised, coll_result>>

\* self._analyses[-100:] in _save
HistoryCap == 100

FreqKeys ==
  <<"frame_frequencies", "mask_frequencies", "spell_frequencies",
    "prison_frequencies">>

\* The in-memory state of an aggregator, as a record.
CollState ==
  [analyses |-> analyses,
   frame_frequencies |-> frame_frequencies,
   mask_frequencies |-> mask_frequencies,
   spell_frequencies |-> spell_frequencies,
   prison_frequencies |-> prison_frequencies,
   total_analyses |-> total_analyses]

\* The state __init__ sets before it loads anything.
EmptyCollState ==
  [analyses |-> <<>>,
   frame_frequencies |-> <<>>,
   mask_frequencies |-> <<>>,
   spell_frequencies |-> <<>>,
   prison_frequencies |-> <<>>,
   total_analyses |-> 0]

\* d[key] (0 when absent) for a counter d
Count(d, key) ==
  IF \E i \in 1..Len(d) : d[i].key = key
    THEN d[CHOOSE i \in 1..Len(d) : d[i].key = key].count
    ELSE 0

\* d[key] = 1 in place of d[key] += 1
Increment_Overwrite(d, key) ==
  IF \E i \in 1..Len(d) : d[i].key = key
    THEN [i \in 1..Len(d) |->
            IF d[i].key = key THEN [d[i] EXCEPT !.count = 1] ELSE d[i]]
    ELSE Append(d, [key |-> key, count |-> 1])

\* d[key] += 1 on a defaultdict(int): a new key goes to the end.
Increment(d, key) ==
  IF \E i \in 1..Len(d) : d[i].key = key
    THEN [i \in 1..Len(d) |->
            IF d[i].key = key THEN [d[i] EXCEPT !.count = @ + 1] ELSE d[i]]
    ELSE Append(d, [key |-> key, count |-> 1])

\* for t in tags: d[t] += 1
RECURSIVE IncrementAll(_, _)
IncrementAll(d, tags) ==
  IF tags = <<>> THEN d ELSE IncrementAll(Increment(d, tags[1]), Tail(tags))

\* The anonymized entry contribute builds at time now.
Anonymized(analysis, now) ==
  [frame_types |-> [i \in 1..Len(analysis.frames) |-> analysis.frames[i].frame_type],
   mask_types |-> [i \in 1..Len(analysis.masks) |-> analysis.masks[i].mask_type],
   spell_types |-> [i \in 1..Len(analysis.spells) |-> analysis.spells[i].spell_type],
   prison_types |->
     [i \in 1..Len(analysis.prisons) |-> analysis.prisons[i].prison_type],
   awareness_score |-> awareness_score(analysis),
   seeing_depth |-> analysis.seeing_depth,
   contributed_at |-> IsoTime(now)]

\* The in-memory part of contribute: the history, the count, the counters.
Contributed(st, analysis, now) ==
  LET anonymized == Anonymized(analysis, now)
  IN  [analyses |-> Append(st.analyses, anonymized),
       total_analyses |-> st.total_analyses + 1,
       frame_frequencies |->
         IncrementAll(st.frame_frequencies, anonymized.frame_types),
       mask_frequencies |->
         IncrementAll(st.mask_frequencies, anonymized.mask_types),
       spell_frequencies |->
         IncrementAll(st.spell_frequencies, anonymized.spell_types),
       prison_frequencies |->
         IncrementAll(st.prison_frequencies, anonymized.prison_types)]

\* round(x, 3) of the fraction n/d >= 0, in thousandths (a tie goes to the
\* even neighbour).
Round3(n, d) ==
  LET q == (1000 * n) \div d
      r == (1000 * n) % d
  IN  IF 2 * r > d \/ (2 * r = d /\ q % 2 = 1) THEN q + 1 ELSE q

\* {k: round(v / total, 3) for k, v in d.items()}
Distribution(d, total) ==
  [i \in 1..Len(d) |-> [key |-> d[i].key, pct |-> Round3(d[i].count, total)]]

\* max(d, key=d.get) if d else None: the first key of maximal count.
MostCommon(d) ==
  IF d = <<>> THEN None
  ELSE d[CHOOSE i \in 1..Len(d) :
           /\ \A j \in 1..Len(d) : d[j].count <= d[i].count
           /\ \A j \in 1..(i - 1) : d[j].count < d[i].count].key

\* sum(x.num for x in scores[i..j])
RECURSIVE SumRange(_, _, _)
SumRange(scores, i, j) ==
  IF i > j THEN 0
  ELSE IF i = j THEN scores[i].num
  ELSE LET m == (i + j) \div 2
       IN  SumRange(scores, i, m) + SumRange(scores, m + 1, j)

SumNum(scores) == SumRange(scores, 1, Len(scores))

\* CollectiveInsight._generate_collective_insight
generate_collective_insight(st) ==
  IF st.total_analyses < 1
    THEN "The collective map is empty. You are the first seeker. What you see matters."
    ELSE LET parts ==
               (IF st.frame_frequencies # <<>>
                  THEN <<"The most common frame across all analyses is "
                           \o MostCommon(st.frame_frequencies)>>
                  ELSE <<>>)
               \o (IF st.prison_frequencies # <<>>
                     THEN <<"the most prevalent prison is "
                              \o MostCommon(st.prison_frequencies)>>
                     ELSE <<>>)
               \o (IF st.spell_frequencies # <<>>
                     THEN <<"the most potent spell is "
                              \o MostCommon(st.spell_frequencies)>>
                     ELSE <<>>)
             base == IF parts # <<>> THEN JoinWith(parts, ". ") \o "." ELSE ""
         IN  "Across " \o ToString(st.total_analyses) \o " analyses: " \o base
               \o " The collective sees further than any individual."

\* CollectiveInsight.get_collective_map.  Every history entry carries an
\* awareness_score; all scores are fractions over 90.
get_collective_map(st) ==
  LET total == Max(st.total_analyses, 1)
      awareness_scores ==
        [i \in 1..Len(st.analyses) |-> st.analyses[i].awareness_score]
  IN  [total_analyses |-> st.total_analyses,
       most_common_frame |-> MostCommon(st.frame_frequencies),
       most_common_mask |-> MostCommon(st.mask_frequencies),
       most_powerful_spell |-> MostCommon(st.spell_frequencies),
       most_elegant_prison |-> MostCommon(st.prison_frequencies),
       frame_distribution |-> Distribution(st.frame_frequencies, total),
       mask_distribution |-> Distribution(st.mask_frequencies, total),
       spell_distribution |-> Distribution(st.spell_frequencies, total),
       prison_distribution |-> Distribution(st.prison_frequencies, total),
       average_awareness |->
         Round3(SumNum(awareness_scores), 90 * Max(Len(awareness_scores), 1)),
       insight |-> generate_collective_insight(st)]

\* seq in place of seq[-n:]
LastN_Uncut(seq, n) == seq

\* seq[-n:]
LastN(seq, n) ==
  IF Len(seq) <= n THEN seq ELSE SubSeq(seq, Len(seq) - n + 1, Len(seq))

\* The content of the file at storage_path.  kind is "object" for a JSON
\* object, "other" for any other JSON value, "garbage" for text that is not
\* JSON.  Of an object, present holds the keys it has and not_mapping the
\* FreqKeys whose value is no mapping (a number, say); data holds the
\* values of the other keys.
FileContent(kind, present, not_mapping, data) ==
  [kind |-> kind, present |-> present, not_mapping |-> not_mapping, data |-> data]

AllKeys ==
  {"total_analyses", "frame_frequencies", "mask_frequencies",
   "spell_frequencies", "prison_frequencies", "analyses", "saved_at"}

\* The content CollectiveInsight._save writes at time now.
SavedContent(st, now) ==
  FileContent("object", AllKeys, {},
              [total_analyses |-> st.total_analyses,
               frame_frequencies |-> st.frame_frequencies,
               mask_frequencies |-> st.mask_frequencies,
               spell_frequencies |-> st.spell_frequencies,
               prison_frequencies |-> st.prison_frequencies,
               analyses |-> LastN(st.analyses, HistoryCap),
               saved_at |-> IsoTime(now)])

\* CollectiveInsight._load on the state st that __init__ has set, for a file
\* that exists.  json.loads raises on garbage and data.get on a value that
\* is no object; defaultdict(int, x) raises on an x that is no mapping.
\* Every exception ends the method (except Exception: pass), and what was
\* assigned before it stays assigned.
LoadedState(st, content) ==
  IF content.kind # "object" THEN st
  ELSE LET Get(key, default) ==
             IF key \in content.present THEN content.data[key] ELSE default
           \* the first FreqKey whose defaultdict(int, ...) raises, or 5
           bad == IF \E i \in 1..4 : FreqKeys[i] \in content.not_mapping
                    THEN CHOOSE i \in 1..4 :
                           /\ FreqKeys[i] \in content.not_mapping
                           /\ \A j \in 1..(i - 1) : FreqKeys[j] \notin content.not_mapping
                    ELSE 5
       IN  [total_analyses |-> Get("total_analyses", 0),
            frame_frequencies |->
              IF 1 < bad THEN Get("frame_frequencies", <<>>) ELSE st.frame_frequencies,
            mask_frequencies |->
              IF 2 < bad THEN Get("mask_frequencies", <<>>) ELSE st.mask_frequencies,
            spell_frequencies |->
              IF 3 < bad THEN Get("spell_frequencies", <<>>) ELSE st.spell_frequencies,
            prison_frequencies |->
              IF 4 < bad THEN Get("prison_frequencies", <<>>)
              ELSE st.prison_frequencies,
            analyses |-> IF bad = 5 THEN Get("analyses", <<>>) ELSE st.analyses]

\* CollectiveInsight.__init__(storage_path) for the file found there.
Constructed(path, file) ==
  IF path # None /\ file # <<>> THEN LoadedState(EmptyCollState, file[1])
  ELSE EmptyCollState

SetCollState(st) ==
  /\ analyses' = st.analyses
  /\ frame_frequencies' = st.frame_frequencies
  /\ mask_frequencies' = st.mask_frequencies
  /\ spell_frequencies' = st.spell_frequencies
  /\ prison_frequencies' = st.prison_frequencies
  /\ total_analyses' = st.total_analyses

\* An aggregator constructed with storage_path = path where no file exists.
CollectiveInit(path) ==
  /\ storage_path = path
  /\ analyses = <<>>
  /\ frame_frequencies = <<>>
  /\ mask_frequencies = <<>>
  /\ spell_frequencies = <<>>
  /\ prison_frequencies = <<>>
  /\ total_analyses = 0
  /\ coll_clock = 0
  /\ coll_file = <<>>
  /\ coll_op = "init"
  /\ coll_raised = None
  /\ coll_result = <<>>

\* A frame as a caller builds it (examine_own_frames appends such a frame
\* to the detected ones, so a frame_type can occur twice in one analysis).
MetaFrame ==
  [name |-> "The Analyst's Frame",
   frame_type |-> "EPISTEMIC",
   description |-> "The deepest frame",
   unspoken_rules |-> <<>>,
   naturalized_assumptions |-> <<>>,
   forbidden_questions |-> <<"What if seeing is not enough?">>,
   beneficiaries |-> <<>>,
   edges_of_thinkable |-> <<>>,
   strength |-> Frac(9, 10),
   visibility |-> Frac(1, 10)]

\* The analyses the callers contribute.
ContributedAnalyses ==
  { AnalysisOf("tradition", "structure"),
    AnalysisOf("we care; a better option", "surface"),
    AnalysisOf("", "recursive"),
    SystemAnalysis(Append(detect_frames("objective", ""), MetaFrame), <<>>, <<>>,
                   <<>>, None, "pattern") }

LongRunAnalyses == { AnalysisOf("tradition", "structure") }

\* CollectiveInsight.contribute, called by one thread at a time, of an
\* analysis of the set S, at most max times (and while the clock, which
\* the call reads once or twice, is below 2 * max).
ContributeOf(S, max) ==
  /\ total_analyses < max
  /\ coll_clock < 2 * max
  /\ \E analysis \in S :
       LET st == Contributed(CollState, analysis, coll_clock)
       IN  /\ SetCollState(st)
           /\ IF storage_path # None
                THEN /\ coll_file' = <<SavedContent(st, coll_clock + 1)>>
                     /\ coll_clock' = coll_clock + 2
                ELSE /\ coll_file' = coll_file
                     /\ coll_clock' = coll_clock + 1
           /\ coll_result' = <<get_collective_map(st)>>
  /\ coll_op' = "contribute"
  /\ coll_raised' = None
  /\ UNCHANGED storage_path

Contribute == ContributeOf(ContributedAnalyses, MaxContributions)

ContributeLong == ContributeOf(LongRunAnalyses, MaxLongRun)

GetCollectiveMap ==
  /\ coll_result' = <<get_collective_map(CollState)>>
  /\ coll_op' = "get_collective_map"
  /\ coll_raised' = None
  /\ UNCHANGED <<storage_path, analyses, frame_frequencies, mask_frequencies,
                 spell_frequencies, prison_frequencies, total_analyses,
                 coll_clock, coll_file>>

\* A new CollectiveInsight(storage_path) over the same path replaces the
\* aggregator (a restart of the process).  No exception leaves __init__.
Reopen ==
  /\ storage_path # None
  /\ SetCollState(Constructed(storage_path, coll_file))
  /\ coll_op' = "init"
  /\ coll_raised' = None
  /\ coll_result' = <<>>
  /\ UNCHANGED <<storage_path, coll_clock, coll_file>>

\* Contents that something other than _save leaves at storage_path: text
\* that is not JSON, a JSON list, an object cut short, an object with a
\* number where a counter should be.
ForeignContents ==
  { FileContent("garbage", {}, {}, [total_analyses |-> 0]),
    FileContent("other", {}, {}, [total_analyses |-> 0]),
    FileContent("object", {"total_analyses"}, {}, [total_analyses |-> 5]),
    FileContent("object", {"total_analyses", "frame_frequencies"},
                {"frame_frequencies"}, [total_analyses |-> 5]),
    FileContent("object",
                {"total_analyses", "frame_frequencies", "mask_frequencies"},
                {"mask_frequencies"},
                [total_analyses |-> 2,
                 frame_frequencies |-> <<[key |-> "NORMATIVE", count |-> 2]>>]) }

\* The file is replaced or removed behind the aggregator's back.
DamageFile ==
  /\ storage_path # None
  /\ \/ coll_file' = <<>>
     \/ \E content \in ForeignContents : coll_file' = <<content>>
  /\ coll_op' = "damage"
  /\ UNCHANGED <<storage_path, analyses, frame_frequencies, mask_frequencies,
                 spell_frequencies, prison_frequencies, total_analyses,
                 coll_clock, coll_raised, coll_result>>

(***************************************************************************)
(* V. InfluenceGraph.  A weight is a whole number of tenths (0.9 is 9):    *)
(* for the weights of EdgeChoices the float sums the code compares are     *)
(* ordered as the exact sums are.                                          *)
(***************************************************************************)

VARIABLES
  actors,        \* InfluenceGraph._actors: list of [actor, mask] in dict order
  edges,         \* InfluenceGraph._edges
  graph_op,      \* the operation that last returned
  graph_result,  \* what it returned (None where the method returns None)
  im_pc,         \* the identify_masks call in progress: "idle", "loop", "done"
  im_text,       \*   its text
  im_added       \*   how many of its masks it has passed to add_actor

graphVars == <<actors, edges, graph_op, graph_result, im_pc, im_text, im_added>>

\* Mask(actor=name): the other fields at their defaults
Mask(name) ==
  [actor |-> name, mask_type |-> "AUTHORITY", formal_role |-> "",
   actual_function |-> "", performance |-> "", hidden_hand |-> "",
   dependencies |-> <<>>, vulnerabilities |-> <<>>]

InfluenceEdge(source, target, weight, visible) ==
  [source |-> source, target |-> target, relation |-> "influences",
   weight |-> weight, visible |-> visible, mask_used |-> None]

\* every mask kept as an entry of its own
add_actor_Append(acts, mask) ==
  Append(acts, [actor |-> mask.actor, mask |-> mask])

\* self._actors[mask.actor] = mask: a key already present keeps its place
add_actor(acts, mask) ==
  IF \E i \in 1..Len(acts) : acts[i].actor = mask.actor
    THEN [i \in 1..Len(acts) |->
            IF acts[i].actor = mask.actor
              THEN [actor |-> mask.actor, mask |-> mask] ELSE acts[i]]
    ELSE Append(acts, [actor |-> mask.actor, mask |-> mask])

\* add_actor for each of the first n results of the loop of identify_masks
RECURSIVE AddActors(_, _, _)
AddActors(acts, results, n) ==
  IF n = 0 THEN acts
  ELSE add_actor(AddActors(acts, results, n - 1), results[n].item)

\* outgoing[a], incoming[a], hidden_count[a] after the loop over the edges
RECURSIVE Outgoing(_, _)
Outgoing(es, a) ==
  IF es = <<>> THEN 0
  ELSE (IF es[1].source = a THEN es[1].weight ELSE 0) + Outgoing(Tail(es), a)

RECURSIVE Incoming(_, _)
Incoming(es, a) ==
  IF es = <<>> THEN 0
  ELSE (IF es[1].target = a THEN es[1].weight ELSE 0) + Incoming(Tail(es), a)

RECURSIVE HiddenCount(_, _)
HiddenCount(es, a) ==
  IF es = <<>> THEN 0
  ELSE (IF es[1].source = a /\ ~es[1].visible THEN 1 ELSE 0)
         + HiddenCount(Tail(es), a)

\* out > inc alone
Qualifies_NoHidden(out, inc, hidden) == out > inc

\* if out > inc and hidden > 0
Qualifies(out, inc, hidden) == out > inc /\ hidden > 0

\* round(out / max(inc, 0.01) * (1 + hidden), 3), in thousandths
PuppetScore(out, inc, hidden) ==
  IF inc = 0 THEN 1000 * (out * 10 * (1 + hidden))
  ELSE Round3(out * (1 + hidden), inc)

\* The entry find_puppeteers appends for an actor (influence in thousandths).
Puppeteer(es, a) ==
  LET out == Outgoing(es, a)
      inc == Incoming(es, a)
      hidden == HiddenCount(es, a)
      score == PuppetScore(out, inc, hidden)
  IN  [key |-> Frac(score, 1000),
       item |-> [actor |-> a,
                 outgoing_influence |-> 100 * out,
                 incoming_influence |-> 100 * inc,
                 hidden_connections |-> hidden,
                 puppet_score |-> score]]

RECURSIVE PuppeteerEntries(_, _, _)
PuppeteerEntries(acts, es, i) ==
  IF i > Len(acts) THEN <<>>
  ELSE LET a == acts[i].actor
       IN  (IF Qualifies(Outgoing(es, a), Incoming(es, a), HiddenCount(es, a))
              THEN <<Puppeteer(es, a)>> ELSE <<>>)
             \o PuppeteerEntries(acts, es, i + 1)

find_puppeteers(acts, es) == Items(SortDesc(PuppeteerEntries(acts, es, 1)))

Hidden(es) == SelectSeq(es, LAMBDA e : ~e.visible)

\* Mask.to_dict and InfluenceEdge.to_dict copy the fields modelled here.
unmask_network(acts, es) ==
  [actors |-> acts,
   relationships |-> es,
   hidden_relationships |-> Hidden(es),
   puppeteers |-> find_puppeteers(acts, es),
   total_actors |-> Len(acts),
   total_edges |-> Len(es),
   hidden_edge_ratio |-> Frac(Len(Hidden(es)), Max(Len(es), 1))]

\* The module-level identify_masks(text): a fresh graph, its identify_masks.
identify_masks(text) == SortedMasks(text)

GraphInit ==
  /\ actors = <<>>
  /\ edges = <<>>
  /\ graph_op = "init"
  /\ graph_result = None
  /\ im_pc = "idle"
  /\ im_text = ""
  /\ im_added = 0

ActorNames == {"A", "C"}

AUTHORITY_ACTOR == MaskActor("AUTHORITY")
EXPERTISE_ACTOR == MaskActor("EXPERTISE")

EdgeChoices ==
  { InfluenceEdge("A", "B", 9, FALSE),
    InfluenceEdge("A", "B", 1, TRUE),
    InfluenceEdge("B", "A", 9, TRUE),
    InfluenceEdge("C", "B", 1, TRUE),
    InfluenceEdge(AUTHORITY_ACTOR, "A", 9, FALSE),
    InfluenceEdge(EXPERTISE_ACTOR, "A", 9, FALSE) }

GraphTexts == {"", "the Board", "an expert on leadership"}

\* The results list of the loop of identify_masks for each of these texts.
GraphResults == [text \in GraphTexts |-> MaskResults(text)]

AddActor ==
  /\ \E name \in ActorNames : actors' = add_actor(actors, Mask(name))
  /\ graph_op' = "add_actor"
  /\ graph_result' = None
  /\ UNCHANGED <<edges, im_pc, im_text, im_added>>

AddEdge ==
  /\ Len(edges) < MaxEdges
  /\ \E edge \in EdgeChoices : edges' = Append(edges, edge)
  /\ graph_op' = "add_edge"
  /\ graph_result' = None
  /\ UNCHANGED <<actors, im_pc, im_text, im_added>>

\* InfluenceGraph.identify_masks with no other thread at work
IdentifyMasks ==
  /\ im_pc = "idle"
  /\ \E text \in GraphTexts :
       LET results == GraphResults[text]
       IN  /\ actors' = AddActors(actors, results, Len(results))
           /\ graph_result' = Items(SortDesc(results))
  /\ graph_op' = "identify_masks"
  /\ UNCHANGED <<edges, im_pc, im_text, im_added>>

FindPuppeteers ==
  /\ graph_result' = find_puppeteers(actors, edges)
  /\ graph_op' = "find_puppeteers"
  /\ UNCHANGED <<actors, edges, im_pc, im_text, im_added>>

UnmaskNetwork ==
  /\ graph_result' = unmask_network(actors, edges)
  /\ graph_op' = "unmask_network"
  /\ UNCHANGED <<actors, edges, im_pc, im_text, im_added>>

\* identify_masks on one thread while other threads use the same graph.
\* The method does not take the lock itself: each add_actor call takes and
\* releases it, so the other threads' operations (each one atomic under
\* the lock) can run between two iterations of the loop.
IdentifyMasksBegin ==
  /\ im_pc = "idle"
  /\ \E text \in GraphTexts : im_text' = text
  /\ im_pc' = "loop"
  /\ im_added' = 0
  /\ UNCHANGED <<actors, edges, graph_op, graph_result>>

\* one iteration that has matched keywords: results.append, self.add_actor
IdentifyMasksIterate ==
  /\ im_pc = "loop"
  /\ im_added < Len(GraphResults[im_text])
  /\ actors' = add_actor(actors, GraphResults[im_text][im_added + 1].item)
  /\ im_added' = im_added + 1
  /\ UNCHANGED <<edges, graph_op, graph_result, im_pc, im_text>>

\* results.sort(...); return
IdentifyMasksReturn ==
  /\ im_pc = "loop"
  /\ im_added = Len(GraphResults[im_text])
  /\ im_pc' = "done"
  /\ graph_op' = "identify_masks"
  /\ graph_result' = Items(SortDesc(GraphResults[im_text]))
  /\ UNCHANGED <<actors, edges, im_text, im_added>>

(***************************************************************************)
(* X (continued). contribute called from several threads.  Every statement *)
(* of the body is a step of its thread; `with self._lock` is the first and *)
(* the last one.  _save and get_collective_map take the lock again on the  *)
(* thread that holds it, which a re-entrant lock allows.                   *)
(***************************************************************************)

VARIABLES
  lock,        \* the owner of CollectiveInsight._lock, or None
  pc,          \* thread -> the statement of contribute it is at
  frame,       \* thread -> its locals: the analysis, the count it read
  calls,       \* the analyses of the calls made so far
  returned     \* the total_analyses of the maps the calls returned so far

threadVars == <<lock, pc, frame, calls, returned>>

Threads == {"t1", "t2"}

NoFrame == [analysis |-> None, total |-> 0]

ThreadsInit ==
  /\ lock = None
  /\ pc = [t \in Threads |-> "idle"]
  /\ frame = [t \in Threads |-> NoFrame]
  /\ calls = <<>>
  /\ returned = <<>>

\* The analyses the threads contribute.
ThreadAnalyses ==
  { AnalysisOf("tradition", "structure"),
    AnalysisOf("we care; a better option", "surface") }

\* the lock is taken whoever holds it
Acquirable_Always(owner, t) == TRUE

\* An RLock can be taken when it is free or held by the caller.
Acquirable(owner, t) == owner \in {None, t}

\* collective.contribute(analysis) is called on thread t
Call(t) ==
  /\ pc[t] = "idle"
  /\ Len(calls) < MaxContributions
  /\ \E analysis \in ThreadAnalyses :
       /\ frame' = [frame EXCEPT ![t] = [analysis |-> analysis, total |-> 0]]
       /\ calls' = Append(calls, analysis)
  /\ pc' = [pc EXCEPT ![t] = "lock"]
  /\ UNCHANGED <<collVars, lock, returned>>

\* with self._lock:
Acquire(t) ==
  /\ pc[t] = "lock"
  /\ Acquirable(lock, t)
  /\ lock' = t
  /\ pc' = [pc EXCEPT ![t] = "append"]
  /\ UNCHANGED <<collVars, frame, calls, returned>>

\* anonymized = {...}; self._analyses.append(anonymized)
AppendHistory(t) ==
  /\ pc[t] = "append"
  /\ analyses' = Append(analyses, Anonymized(frame[t].analysis, coll_clock))
  /\ coll_clock' = coll_clock + 1
  /\ pc' = [pc EXCEPT ![t] = "read_total"]
  /\ UNCHANGED <<storage_path, frame_frequencies, mask_frequencies,
                 spell_frequencies, prison_frequencies, total_analyses,
                 coll_file, coll_op, coll_raised, coll_result,
                 lock, frame, calls, returned>>

\* self._total_analyses += 1: the read
ReadTotal(t) ==
  /\ pc[t] = "read_total"
  /\ frame' = [frame EXCEPT ![t].total = total_analyses]
  /\ pc' = [pc EXCEPT ![t] = "write_total"]
  /\ UNCHANGED <<collVars, lock, calls, returned>>

\* self._total_analyses += 1: the write
WriteTotal(t) ==
  /\ pc[t] = "write_total"
  /\ total_analyses' = frame[t].total + 1
  /\ pc' = [pc EXCEPT ![t] = "frequencies"]
  /\ UNCHANGED <<storage_path, analyses, frame_frequencies, mask_frequencies,
                 spell_frequencies, prison_frequencies, coll_clock,
                 coll_file, coll_op, coll_raised, coll_result,
                 lock, frame, calls, returned>>

\* the four loops that update the frequencies
UpdateFrequencies(t) ==
  /\ pc[t] = "frequencies"
  /\ LET anonymized == Anonymized(frame[t].analysis, 0)
     IN  /\ frame_frequencies' =
               IncrementAll(frame_frequencies, anonymized.frame_types)
         /\ mask_frequencies' =
               IncrementAll(mask_frequencies, anonymized.mask_types)
         /\ spell_frequencies' =
               IncrementAll(spell_frequencies, anonymized.spell_types)
         /\ prison_frequencies' =
               IncrementAll(prison_frequencies, anonymized.prison_types)
  /\ pc' = [pc EXCEPT ![t] = "save"]
  /\ UNCHANGED <<storage_path, analyses, total_analyses, coll_clock,
                 coll_file, coll_op, coll_raised, coll_result,
                 lock, frame, calls, returned>>

\* if self._storage_path: self._save()
Save(t) ==
  /\ pc[t] = "save"
  /\ IF storage_path # None
       THEN /\ coll_file' = <<SavedContent(CollState, coll_clock)>>
            /\ coll_clock' = coll_clock + 1
       ELSE UNCHANGED <<coll_file, coll_clock>>
  /\ pc' = [pc EXCEPT ![t] = "return"]
  /\ UNCHANGED <<storage_path, analyses, frame_frequencies, mask_frequencies,
                 spell_frequencies, prison_frequencies, total_analyses,
                 coll_op, coll_raised, coll_result,
                 lock, frame, calls, returned>>

\* return self.get_collective_map(), and the lock is released on the way out
Return(t) ==
  /\ pc[t] = "return"
  /\ coll_result' = <<get_collective_map(CollState)>>
  /\ coll_op' = "contribute"
  /\ returned' = Append(returned, get_collective_map(CollState).total_analyses)
  /\ lock' = None
  /\ pc' = [pc EXCEPT ![t] = "idle"]
  /\ frame' = [frame EXCEPT ![t] = NoFrame]
  /\ UNCHANGED <<storage_path, analyses, frame_frequencies, mask_frequencies,
                 spell_frequencies, prison_frequencies, total_analyses,
                 coll_clock, coll_file, coll_raised, calls>>

\* What a write that failed can leave at storage_path: text cut short.
CutShort == FileContent("garbage", {}, {}, [total_analyses |-> 0])

\* the same without the with block: the exception leaves the lock held
SaveFails_LockHeld(t) ==
  /\ pc[t] = "save"
  /\ storage_path # None
  /\ coll_file' \in {coll_file, <<CutShort>>}
  /\ coll_clock' = coll_clock + 1
  /\ coll_raised' = "OSError"
  /\ coll_op' = "contribute"
  /\ pc' = [pc EXCEPT ![t] = "idle"]
  /\ frame' = [frame EXCEPT ![t] = NoFrame]
  /\ UNCHANGED <<storage_path, analyses, frame_frequencies, mask_frequencies,
                 spell_frequencies, prison_frequencies, total_analyses,
                 coll_result, calls, returned, lock>>

\* if self._storage_path: self._save(), where write_text raises OSError (the
\* disk is full, the file may not be written).  The file is left as it was
\* or cut short; the exception leaves the with block, which releases the
\* lock, and contribute; nothing is returned.
SaveFails(t) ==
  /\ pc[t] = "save"
  /\ storage_path # None
  /\ coll_file' \in {coll_file, <<CutShort>>}
  /\ coll_clock' = coll_clock + 1
  /\ coll_raised' = "OSError"
  /\ coll_op' = "contribute"
  /\ lock' = None
  /\ pc' = [pc EXCEPT ![t] = "idle"]
  /\ frame' = [frame EXCEPT ![t] = NoFrame]
  /\ UNCHANGED <<storage_path, analyses, frame_frequencies, mask_frequencies,
                 spell_frequencies, prison_frequencies, total_analyses,
                 coll_result, calls, returned>>

(***************************************************************************)
(* IV-VII (continued). The four detectors called on texts.                 *)
(***************************************************************************)

VARIABLES
  det_parts,     \* the text a caller has, as the phrases it is made of
  det_context,   \* the context of the last detect_frames call
  det_op,        \* the detector last called on the text, or "none"
  det_result     \* the list it returned

detVars == <<det_parts, det_context, det_op, det_result>>

\* The text: the phrases separated by spaces.
DetText == JoinWith(det_parts, " ")

Fragments ==
  { "founded began origin genesis",
    "better growing forward unprecedented",
    "option plan tier menu pick fringe extreme radical moderate mainstream",
    "NORMAL market roi and GDP, qualified expert board",
    "in common" }

Contexts == {"", "sense", "GDP"}

DetectInit ==
  /\ det_parts = <<>>
  /\ det_context = ""
  /\ det_op = "none"
  /\ det_result = <<>>

\* the caller's text grows by a phrase it does not have yet
AppendFragment ==
  /\ Len(det_parts) < MaxFragments
  /\ \E f \in Fragments :
       /\ \A i \in 1..Len(det_parts) : det_parts[i] # f
       /\ det_parts' = Append(det_parts, f)
  /\ det_context' = ""
  /\ det_op' = "none"
  /\ det_result' = <<>>

DetectFrames ==
  /\ \E context \in Contexts :
       /\ det_context' = context
       /\ det_result' = detect_frames(DetText, context)
  /\ det_op' = "detect_frames"
  /\ UNCHANGED det_parts

IdentifyMasksOf ==
  /\ det_result' = identify_masks(DetText)
  /\ det_op' = "identify_masks"
  /\ det_context' = ""
  /\ UNCHANGED det_parts

AnalyzeSpells ==
  /\ det_result' = analyze_spells(DetText)
  /\ det_op' = "analyze_spells"
  /\ det_context' = ""
  /\ UNCHANGED det_parts

MapPrisons ==
  /\ det_result' = map_prisons(DetText)
  /\ det_op' = "map_prisons"
  /\ det_context' = ""
  /\ UNCHANGED det_parts

(***************************************************************************)
(* CrumbTrail.encode_crumb.                                                *)
(***************************************************************************)

VARIABLES
  enc_op,      \* "none" or "encode_crumb": the last call
  enc_crumb,   \* the crumb that call was given: <<>> or <<crumb>>
  enc_key,     \* the key that call was given
  encoded      \* the string that call returned

encVars == <<enc_op, enc_crumb, enc_key, encoded>>

MaxEncoded == 2

\* hashlib.sha256(s.encode()).hexdigest(), on the strings the calls hash:
\* [input, digest].
Sha256Table ==
  <<
    <<"uuid0:uuid0",
      "bec8d98343ff24e9e6ee953dd6d2c587509550e9cbc6a74bd226476eb7e7dad9">>,
    <<"uuid0:uuid1",
      "7fc53896a077c0dbc1676ba2905042137e7e90770a71981ae3278f30378846da">>,
    <<"uuid0:uuid2",
      "4396dbf3d993517cfa75c6d75b9afe2b40755858115825d483650e1eea58ef54">>,
    <<"uuid0:uuid3",
      "32da08e3a7d0fbf024fc5f16d04fc990afda2cc7d445f5bcbc7c3aaa577e515f">>,
    <<"uuid0:uuid4",
      "504a6bf9be333f4e99426b39ecbb9a46301e6dcd83657632576157d8fd388dfe">>,
    <<"uuid0:uuid5",
      "0948172d7abaa91fc68f69a28447d34dd933ec7983aa698b77e554b796a7bb94">>,
    <<"trail-A:uuid0",
      "4c8224e1c26483af522bc8e3819b4baf2c18e66d83a406b01fc3355807ef53b1">>,
    <<"trail-A:uuid1",
      "685746af1748c70429956d8fd4b57d81746dee13d9cacaa2867c192ed911cd3b">>,
    <<"trail-A:uuid2",
      "1650ebe12712b9ee3005e04bdbbd22eaff3df9955c5bc5970654c6c2df5d5526">>,
    <<"trail-A:uuid3",
      "98c7f4005ceb4ffc97f9676512b4b68049581e475e3905807dc3babcebc65c0b">>,
    <<"trail-A:uuid4",
      "cfa0829d78742052006b97cc42e0fdae5682e184118c7e857d723259c64023a4">>,
    <<"trail-A:uuid5",
      "e829f8ce742f8e4275d6c59d0f4fb7c9d6ac99dd6106666c6ab97335d0fc5adb">>,
    <<"k1:uuid0",
      "35c0bea0f1a245a6a1d329fda75d631994afdf1d1b103dc66653461345a5eb54">>,
    <<"k1:uuid1",
      "c7fc6932057ff5b1176865c5f19c9b177bb2b5782b3e18fa74384e3e3a568c87">>,
    <<"k1:uuid2",
      "7484c2dbfb40f8f3b7fb4586b739fe1c6fe4c058bd99164dfa7165b3d29b40c0">>,
    <<"k1:uuid3",
      "ff0a84021236de4c20f602a15484be6fa667585622dbf962f29bdfd204f79b2c">>,
    <<"k1:uuid4",
      "7a0ef08666d14137e6d3aefe56a879c4c9602d33cdf623f3f47db364e38445c5">>,
    <<"k1:uuid5",
      "d182e9a0185407b080519cc082958b22e97363e3528c1ea586c3daabe2796bd6">>,
    <<"",
      "e3b0c44298fc1c149afbf4c8996fb92427ae41e4649b934ca495991b7852b855">>,
    <<"sk",
      "32b56ed53348a8587f30c90e5c6406df95d3b8ab1130b1da62bcf492a8ed8a63">>,
    <<":",
      "e7ac0786668e0ff0f02b62bd04f45ff636fd82db63b1104601c975dc005f3a67">>,
    <<"a",
      "ca978112ca1bbdcafac231b39a23dc4da786eff8147c4e72b9807785afee48bb">>,
    <<"Who benefits?",
      "42e8a3a18a81f5aa29d6dac0b9694a9485e817e26a0d8a4a4599a7f489f76bb5">>
  >>

Sha256Hex(s) ==
  LET i == CHOOSE i \in 1..Len(Sha256Table) : Sha256Table[i][1] = s
  IN  Sha256Table[i][2]

\* the marker with the content itself in place of its digest
encode_crumb_Plain(tid, crumb, key) ==
  LET salt == Or(key, tid)
      marker == SubSeq(Sha256Hex(salt \o ":" \o crumb.crumb_id), 1, 8)
  IN  "sk:" \o marker \o ":" \o crumb.content

\* CrumbTrail.encode_crumb(crumb, key) on the trail whose id is tid
encode_crumb(tid, crumb, key) ==
  LET content == crumb.content
      salt == Or(key, tid)
      marker == SubSeq(Sha256Hex(salt \o ":" \o crumb.crumb_id), 1, 8)
      content_hash == SubSeq(Sha256Hex(content), 1, 16)
  IN  "sk:" \o marker \o ":" \o content_hash

EncodeInit ==
  /\ enc_op = "none"
  /\ enc_crumb = <<>>
  /\ enc_key = ""
  /\ encoded = ""

\* Contents and keys the callers of encode_crumb use.
EncodeContents == {"", "sk", ":", "a", "Who benefits?"}
EncodeKeys == {"", "k1"}

\* drop_crumb(content, CrumbType.SIGNAL) with the other arguments defaulted
DropContent ==
  /\ Len(crumbs) < MaxEncoded
  /\ uuid < MaxUuid /\ clock < MaxClock
  /\ \E content \in EncodeContents :
       SetStore(drop_crumb(TrailState, content, SIGNAL, "", "subtle", "seekers", None))
  /\ UNCHANGED <<trail_file, persisted, trail_loaded>>

EncodeCrumb ==
  /\ \E i \in 1..Len(crumbs) : \E key \in EncodeKeys :
       /\ enc_op' = "encode_crumb"
       /\ enc_crumb' = <<crumbs[i]>>
       /\ enc_key' = key
       /\ encoded' = encode_crumb(trail_id, crumbs[i], key)

(***************************************************************************)
(* SystemAnalysis: a composite analysis whose lists its holder changes     *)
(* between reads of awareness_score.                                       *)
(***************************************************************************)

VARIABLES
  analysis,       \* the SystemAnalysis: its five lists and self_examination
  ana_op,         \* "none", "add", "remove", "set" or "awareness_score"
  ana_score       \* what the last read of awareness_score returned: <<x>>,
                  \* or <<>> when the analysis has changed since

anaVars == <<analysis, ana_op, ana_score>>

MaxFindings == 4
MaxInfluenceEdges == 6

\* The list fields of SystemAnalysis that awareness_score counts.
ListFields == {"frames", "masks", "spells", "prisons", "influence_edges"}

MaxLenOf(field) ==
  IF field = "influence_edges" THEN MaxInfluenceEdges ELSE MaxFindings

\* SystemAnalysis(): every list empty, self_examination None
AnalysisInit ==
  /\ analysis = [frames |-> <<>>, masks |-> <<>>, spells |-> <<>>,
                 prisons |-> <<>>, influence_edges |-> <<>>,
                 self_examination |-> None]
  /\ ana_op = "none"
  /\ ana_score = <<>>

\* analysis.<field>.append(item)
AddFinding ==
  /\ \E field \in ListFields :
       /\ Len(analysis[field]) < MaxLenOf(field)
       /\ analysis' = [analysis EXCEPT ![field] = Append(@, field)]
  /\ ana_op' = "add"
  /\ ana_score' = <<>>

\* analysis.<field>.pop()
RemoveFinding ==
  /\ \E field \in ListFields :
       /\ analysis[field] # <<>>
       /\ analysis' = [analysis EXCEPT ![field] = SubSeq(@, 1, Len(@) - 1)]
  /\ ana_op' = "remove"
  /\ ana_score' = <<>>

\* analysis.self_examination = SelfExamination(...) or None
SetSelfExamination ==
  /\ \E exam \in {None, "exam"} :
       /\ exam # analysis.self_examination
       /\ analysis' = [analysis EXCEPT !.self_examination = exam]
  /\ ana_op' = "set"
  /\ ana_score' = <<>>

\* a read of the property analysis.awareness_score
ReadAwarenessScore ==
  /\ ana_score' = <<awareness_score(analysis)>>
  /\ ana_op' = "awareness_score"
  /\ UNCHANGED analysis

(***************************************************************************)
(* map_frame_architecture and _generate_frame_insight.                     *)
(***************************************************************************)

VARIABLES
  arch_texts,    \* the corpus: the list of texts the next call is given
  arch_op,       \* "none" or "map_frame_architecture"
  arch_result    \* the dict the last call returned

archVars == <<arch_texts, arch_op, arch_result>>

MaxTexts == 3

\* The order of str on the characters of the type names (code points).
NameChars == "ABCDEFGHIJKLMNOPQRSTUVWXYZ_"
Rank(c) == CHOOSE r \in 1..Len(NameChars) : CharAt(NameChars, r) = c

\* a < b on two type names
RECURSIVE StrLessFrom(_, _, _)
StrLessFrom(a, b, i) ==
  IF i > Len(b) THEN FALSE
  ELSE IF i > Len(a) THEN TRUE
  ELSE IF CharAt(a, i) = CharAt(b, i) THEN StrLessFrom(a, b, i + 1)
  ELSE Rank(CharAt(a, i)) < Rank(CharAt(b, i))

StrLess(a, b) == StrLessFrom(a, b, 1)

\* the pair as the loop met it
SortedPair_AsFound(a, b) == <<a, b>>

\* tuple(sorted([a, b]))
SortedPair(a, b) == IF StrLess(b, a) THEN <<b, a>> ELSE <<a, b>>

\* for i, a in enumerate(types_found): for b in types_found[i + 1:]:
\* the pairs in the order the loops visit them
RECURSIVE PairsFrom(_, _, _)
PairsFrom(types_found, i, j) ==
  IF i > Len(types_found) THEN <<>>
  ELSE IF j > Len(types_found) THEN PairsFrom(types_found, i + 1, i + 2)
  ELSE <<SortedPair(types_found[i], types_found[j])>>
         \o PairsFrom(types_found, i, j + 1)

\* detect_frames(text) on the texts of the corpora
ArchTexts == {"", "NORMAL market roi", "normal natural market", "policy"}
ArchFrames == [text \in ArchTexts |-> detect_frames(text, "")]

\* The loop over texts from text k on: [all_frames, frame_counts,
\* co_occurrences] after it.
RECURSIVE ScanTexts(_, _, _)
ScanTexts(texts, k, acc) ==
  IF k > Len(texts) THEN acc
  ELSE
    LET frames == ArchFrames[texts[k]]
        types_found == [i \in 1..Len(frames) |-> frames[i].frame_type]
    IN  ScanTexts(texts, k + 1,
          [all_frames |-> acc.all_frames \o frames,
           frame_counts |-> IncrementAll(acc.frame_counts, types_found),
           co_occurrences |->
             IncrementAll(acc.co_occurrences, PairsFrom(types_found, 1, 2))])

\* sorted(frame_counts.items(), key=lambda x: x[1], reverse=True)
SortByCount(counter) ==
  Items(SortDesc([i \in 1..Len(counter) |->
                    [key |-> Frac(counter[i].count, 1), item |-> counter[i]]]))

\* max(co_occurrences.items(), key=lambda x: x[1]): the first of the largest
StrongestPair(co_occurrences) ==
  co_occurrences[CHOOSE i \in 1..Len(co_occurrences) :
                   /\ \A j \in 1..Len(co_occurrences) :
                        co_occurrences[j].count <= co_occurrences[i].count
                   /\ \A j \in 1..(i - 1) :
                        co_occurrences[j].count < co_occurrences[i].count]

\* dominant[0][0] read from the other end
DominantFrame_Last(dominant) ==
  IF dominant # <<>> THEN dominant[Len(dominant)].key ELSE None

\* dominant[0][0] if dominant else None
DominantFrame(dominant) ==
  IF dominant # <<>> THEN dominant[1].key ELSE None

\* _generate_frame_insight(dominant, co_occurrences); "<->" stands for the
\* double arrow and "-" for the dash of the source strings.
generate_frame_insight(dominant, co_occurrences) ==
  IF dominant = <<>>
    THEN "No frames detected. This is itself significant - where there "
           \o "appear to be no frames, the framing may be total."
    ELSE
      LET top == dominant[1].key
          count == dominant[1].count
          head == "The dominant frame is " \o top \o " (appeared "
                    \o ToString(count) \o " times). "
      IN  IF co_occurrences = <<>> THEN head
          ELSE
            LET strongest_pair == StrongestPair(co_occurrences)
            IN  head \o "The strongest reinforcement pattern is "
                  \o strongest_pair.key[1] \o " <-> " \o strongest_pair.key[2]
                  \o " (co-occurred " \o ToString(strongest_pair.count)
                  \o " times). "
                  \o "These frames likely reinforce each other - look for "
                  \o "how one naturalizes the other."

map_frame_architecture(texts) ==
  LET scanned == ScanTexts(texts, 1,
                   [all_frames |-> <<>>, frame_counts |-> <<>>,
                    co_occurrences |-> <<>>])
      dominant == SortByCount(scanned.frame_counts)
  IN  [total_frames_detected |-> Len(scanned.all_frames),
       frame_frequency |-> dominant,
       co_occurrence_matrix |->
         [i \in 1..Len(scanned.co_occurrences) |->
            [key |-> scanned.co_occurrences[i].key[1] \o "-"
                       \o scanned.co_occurrences[i].key[2],
             count |-> scanned.co_occurrences[i].count]],
       dominant_frame |-> DominantFrame(dominant),
       architectural_density |->
         Frac(Len(scanned.all_frames), Max(Len(texts), 1)),
       insight |-> generate_frame_insight(dominant, scanned.co_occurrences)]

ArchInit ==
  /\ arch_texts = <<>>
  /\ arch_op = "none"
  /\ arch_result = <<>>

\* the caller adds a text to the corpus
AppendText ==
  /\ Len(arch_texts) < MaxTexts
  /\ \E text \in ArchTexts : arch_texts' = Append(arch_texts, text)
  /\ arch_op' = "none"
  /\ arch_result' = <<>>

MapFrameArchitecture ==
  /\ arch_op' = "map_frame_architecture"
  /\ arch_result' = <<map_frame_architecture(arch_texts)>>
  /\ UNCHANGED arch_texts

(***************************************************************************)
(* find_doors and compute_cage_score.  A float the functions round is      *)
(* reported in thousandths: Frac(Round3(...), 1000).                       *)
(***************************************************************************)

VARIABLES
  cage_prisons,   \* the list of Prison findings the next call is given
  cage_result,    \* <<the dict compute_cage_score returned for it>>, or <<>>
  pot_spells,     \* the list of Spell findings the next call is given
  pot_result      \* <<the dict compute_spell_potency returned for it>>, or <<>>

scoreVars == <<cage_prisons, cage_result, pot_spells, pot_result>>

MaxPrisons == 3
MaxSpells == 3

\* The thresholds of the two label ladders: 0.8, 0.6, 0.4, 0.2.
Thresholds == <<Frac(8, 10), Frac(6, 10), Frac(4, 10), Frac(2, 10)>>

\* the if/elif ladder: labels[k] for the first threshold k that x reaches,
\* labels[5] when it reaches none
Ladder(x, labels) ==
  IF \E k \in 1..Len(Thresholds) : FracLe(Thresholds[k], x)
    THEN labels[CHOOSE k \in 1..Len(Thresholds) :
                  /\ FracLe(Thresholds[k], x)
                  /\ \A j \in 1..(k - 1) : ~FracLe(Thresholds[j], x)]
    ELSE labels[Len(Thresholds) + 1]

\* round(x, 3)
Rounded(x) == Frac(Round3(x.num, x.den), 1000)

\* max(items, key=lambda p: p.<field>): the first of the largest
MaxBy(items, field) ==
  items[CHOOSE i \in 1..Len(items) :
          /\ \A j \in 1..Len(items) : FracLe(items[j][field], items[i][field])
          /\ \A j \in 1..(i - 1) : FracLt(items[j][field], items[i][field])]

\* Prison(name=..., prison_type=..., elegance=...), the other fields defaulted
Prison(name, prison_type, elegance) ==
  [name |-> name, prison_type |-> prison_type, description |-> "",
   missing_choices |-> <<>>, forbidden_paths |-> <<>>,
   unimaginable_futures |-> <<>>, invisible_walls |-> <<>>,
   exit_conditions |-> <<>>, elegance |-> elegance]

find_doors(prisons) ==
  [i \in 1..Len(prisons) |->
     [prison |-> prisons[i].name,
      prison_type |-> prisons[i].prison_type,
      elegance |-> prisons[i].elegance,
      exits |-> prisons[i].exit_conditions,
      escape_difficulty |-> Rounded(prisons[i].elegance),
      first_step |-> "See the wall. That is always the first step. "
                       \o "You cannot walk through a wall you don't know is there."]]

CageLabels ==
  <<"total_confinement", "heavy_constraint", "moderate_constraint",
    "light_constraint", "mostly_free">>

compute_cage_score(prisons) ==
  IF prisons = <<>>
    THEN [cage_score |-> FracZero, interpretation |-> "open_field",
          prison_count |-> 0,
          insight |-> "No prisons detected. Freedom - or blindness. Which?"]
    ELSE
      LET avg_elegance ==
            FracScale(FracSum([i \in 1..Len(prisons) |-> prisons[i].elegance]),
                      1, Len(prisons))
          interlocking_bonus == FracMin(Frac(Len(prisons), 10), Frac(5, 10))
          cage_score == FracMin(FracAdd(avg_elegance, interlocking_bonus), FracOne)
      IN  [cage_score |-> Rounded(cage_score),
           interpretation |-> Ladder(cage_score, CageLabels),
           prison_count |-> Len(prisons),
           avg_elegance |-> Rounded(avg_elegance),
           interlocking_bonus |-> Rounded(interlocking_bonus),
           most_elegant_prison |-> MaxBy(prisons, "elegance").name,
           doors |-> find_doors(prisons),
           insight |-> "Cage score: " \o Format2(cage_score) \o ". "
                         \o ToString(Len(prisons))
                         \o " interlocking constraints detected. "
                         \o "The most elegant prison is '"
                         \o MaxBy(prisons, "elegance").name \o "' - "
                         \o "elegant prisons are loved by their inmates."]

\* Prison findings the callers pass: elegance 0.04, 0.24, 0.52, 0.6996, 1.0.
PrisonChoices ==
  { Prison("Choice Architecture", "CHOICE_ARCHITECTURE", Frac(100, 2500)),
    Prison("Credential Gate", "CREDENTIAL_GATE", Frac(600, 2500)),
    Prison("Debt Structure", "DEBT_STRUCTURE", Frac(1300, 2500)),
    Prison("Platform Lock", "PLATFORM_LOCK", Frac(1749, 2500)),
    Prison("Overton Window", "OVERTON_WINDOW", Frac(2500, 2500)) }

ScoreInit ==
  /\ cage_prisons = <<>>
  /\ cage_result = <<>>
  /\ pot_spells = <<>>
  /\ pot_result = <<>>

\* the caller adds a finding to the list
AppendPrison ==
  /\ Len(cage_prisons) < MaxPrisons
  /\ \E prison \in PrisonChoices : cage_prisons' = Append(cage_prisons, prison)
  /\ cage_result' = <<>>
  /\ UNCHANGED <<pot_spells, pot_result>>

ComputeCageScore ==
  /\ cage_result' = <<compute_cage_score(cage_prisons)>>
  /\ UNCHANGED <<cage_prisons, pot_spells, pot_result>>

(***************************************************************************)
(* compute_spell_potency.                                                  *)
(***************************************************************************)

\* Spell(name=..., spell_type=..., potency=..., counter_narrative=...), the
\* other fields defaulted
Spell(name, spell_type, potency, counter_narrative) ==
  [name |-> name, spell_type |-> spell_type, narrative |-> "",
   emotional_payload |-> "", hidden_assumption |-> "", erasure |-> "",
   cui_bono |-> "", counter_narrative |-> counter_narrative,
   potency |-> potency, reach |-> FracZero]

\* -sum((c / total) * math.log2(c / total) for c in type_counts.values()):
\* the float the expression yields for each list of counts, to the nearest
\* 1e-9.
EntropyTable ==
  <<
    [counts |-> <<1>>, nano |-> 0],
    [counts |-> <<1, 1>>, nano |-> 1000000000],
    [counts |-> <<2>>, nano |-> 0],
    [counts |-> <<1, 1, 1>>, nano |-> 1584962501],
    [counts |-> <<1, 2>>, nano |-> 918295834],
    [counts |-> <<2, 1>>, nano |-> 918295834],
    [counts |-> <<3>>, nano |-> 0],
    [counts |-> <<1, 1, 1, 1>>, nano |-> 2000000000],
    [counts |-> <<1, 1, 2>>, nano |-> 1500000000],
    [counts |-> <<1, 2, 1>>, nano |-> 1500000000],
    [counts |-> <<1, 3>>, nano |-> 811278124],
    [counts |-> <<2, 1, 1>>, nano |-> 1500000000],
    [counts |-> <<2, 2>>, nano |-> 1000000000],
    [counts |-> <<3, 1>>, nano |-> 811278124],
    [counts |-> <<4>>, nano |-> 0]
  >>

\* the number of subtypes in place of the entropy
EntropyNano_TypeCount(counts) == Len(counts) * 1000000000

EntropyNano(counts) ==
  LET i == CHOOSE i \in 1..Len(EntropyTable) : EntropyTable[i].counts = counts
  IN  EntropyTable[i].nano

\* the entropy in bits as a fraction (to 1e-6, which round and the format
\* below do not see past)
EntropyBits(nano) == Frac(nano \div 1000, 1000000)

\* d[key] = value on a dict: a key already present keeps its place
RECURSIVE DictFrom(_, _, _)
DictFrom(pairs, i, d) ==
  IF i > Len(pairs) THEN d
  ELSE DictFrom(pairs, i + 1,
         IF \E j \in 1..Len(d) : d[j].key = pairs[i].key
           THEN [j \in 1..Len(d) |->
                   IF d[j].key = pairs[i].key THEN pairs[i] ELSE d[j]]
           ELSE Append(d, pairs[i]))

SpellLabels ==
  <<"total_enchantment", "heavy_enchantment", "moderate_enchantment",
    "light_enchantment", "minimal_enchantment">>

compute_spell_potency(spells) ==
  IF spells = <<>>
    THEN [aggregate_potency |-> FracZero, dominant_spell |-> None,
          spell_count |-> 0, enchantment_level |-> "clear",
          insight |-> "No active spells detected. Either the space is clear, "
                        \o "or the enchantment is too deep to see."]
    ELSE
      LET aggregate ==
            FracScale(FracSum([i \in 1..Len(spells) |-> spells[i].potency]),
                      1, Len(spells))
          dominant == MaxBy(spells, "potency")
          type_counts ==
            IncrementAll(<<>>, [i \in 1..Len(spells) |-> spells[i].spell_type])
          counts == [i \in 1..Len(type_counts) |-> type_counts[i].count]
          entropy == EntropyNano(counts)
          level == Ladder(aggregate, SpellLabels)
      IN  [aggregate_potency |-> Rounded(aggregate),
           dominant_spell |-> dominant,
           spell_count |-> Len(spells),
           spell_diversity |-> Rounded(EntropyBits(entropy)),
           enchantment_level |-> level,
           spell_breakdown |->
             DictFrom([i \in 1..Len(spells) |->
                         [key |-> spells[i].spell_type,
                          value |-> spells[i].potency]], 1, <<>>),
           insight |->
             "Dominant narrative: " \o dominant.name \o " (potency "
               \o Format2(dominant.potency) \o "). Narrative diversity: "
               \o (IF Len(counts) = 1 THEN "-" ELSE "")
               \o Format2(EntropyBits(entropy)) \o " bits. "
               \o (IF entropy > 1500000000
                     THEN "High diversity means multiple reinforcing stories. "
                     ELSE "")
               \o "Counter-question: " \o dominant.counter_narrative]

\* Spell findings the callers pass: potency 0.12, 0.52, 0.7996, 1.0.
SpellChoices ==
  { Spell("Fear Narrative", "FEAR_NARRATIVE", Frac(300, 2500), "What if not?"),
    Spell("Binary Spell", "BINARY_SPELL", Frac(1300, 2500), "What else?"),
    Spell("Origin Myth", "ORIGIN_MYTH", Frac(1999, 2500), "Who tells it?"),
    Spell("Founding Story", "ORIGIN_MYTH", Frac(2500, 2500), "Who was there?") }

\* the caller adds a finding to the list
AppendSpell ==
  /\ Len(pot_spells) < MaxSpells
  /\ \E spell \in SpellChoices : pot_spells' = Append(pot_spells, spell)
  /\ pot_result' = <<>>
  /\ UNCHANGED <<cage_prisons, cage_result>>

ComputeSpellPotency ==
  /\ pot_result' = <<compute_spell_potency(pot_spells)>>
  /\ UNCHANGED <<pot_spells, cage_prisons, cage_result>>

(***************************************************************************)
(* CrumbTrail: the calls that return records (generate_from_analysis,      *)
(* follow_chain, decode_trail), with what each call was given and what it  *)
(* returned.                                                               *)
(***************************************************************************)

VARIABLES
  call_op,       \* the last call: "none", "drop_crumb", "generate_from_analysis",
                 \* "follow_chain", "decode_trail", "persist" or "load"
  call_arg,      \* what it was given
  call_result    \* what it returned

callVars == <<call_op, call_arg, call_result>>

MaxChainUuid == 7

CallInit ==
  /\ call_op = "none"
  /\ call_arg = <<>>
  /\ call_result = <<>>

\* every id of every chain in place of self._chains.get(chain_id, [])
ChainIds_All(chns, chain_id) ==
  LET RECURSIVE AllOf(_)
      AllOf(ks) ==
        IF ks = {} THEN <<>>
        ELSE LET k == CHOOSE k \in ks : TRUE
             IN  chns[k] \o AllOf(ks \ {k})
  IN  AllOf(DOMAIN chns)

\* self._chains.get(chain_id, []): no entry is created for a missing key
ChainIds(chns, chain_id) ==
  IF chain_id \in DOMAIN chns THEN chns[chain_id] ELSE <<>>

\* CrumbTrail.follow_chain(chain_id) on the store st
follow_chain(st, chain_id) ==
  LET crumb_ids == ChainIds(st.chains, chain_id)
  IN  SelectSeq(st.crumbs,
                LAMBDA c : \E k \in 1..Len(crumb_ids) : crumb_ids[k] = c.crumb_id)

\* A Frame finding whose forbidden_questions is empty.
SilentFrame ==
  [name |-> "Silent Frame", frame_type |-> "NORMATIVE", description |-> "",
   unspoken_rules |-> <<>>, naturalized_assumptions |-> <<>>,
   forbidden_questions |-> <<>>, beneficiaries |-> <<>>,
   edges_of_thinkable |-> <<>>, strength |-> FracZero, visibility |-> FracOne]

\* Composites the callers pass: one of each kind of finding, a mask only,
\* no finding, and a frame that holds no question.
BatchAnalyses ==
  { SystemAnalysis(detect_frames("normal", ""), SortedMasks("the board"),
                   analyze_spells("founded"), map_prisons("menu"), None,
                   "structure"),
    AnalysisOf("tradition", "structure"),
    AnalysisOf("", "structure"),
    SystemAnalysis(<<SilentFrame>>, <<>>, <<>>, <<>>, None, "structure") }

\* drop_crumb as the callers of a chain use it
ChainDropArgs ==
  { [content |-> "who decided?", chain_id |-> None],
    [content |-> "who decided?", chain_id |-> ""],
    [content |-> "look here", chain_id |-> "chain-A"] }

DropOne ==
  /\ uuid < MaxChainUuid
  /\ \E a \in ChainDropArgs :
       /\ SetStore(drop_crumb(TrailState, a.content, QUESTION, "", "hidden",
                              "seekers", a.chain_id))
       /\ call_arg' = a
  /\ call_op' = "drop_crumb"
  /\ call_result' = <<crumbs'[Len(crumbs')]>>
  /\ UNCHANGED <<trail_file, persisted, trail_loaded>>

\* generate_from_analysis(analysis): the returned list is the crumbs the
\* calls of drop_crumb returned, in order
GenerateBatch ==
  /\ \E composite \in BatchAnalyses :
       /\ uuid + 1 + Len(AllGeneratedCalls(composite)) <= MaxChainUuid
       /\ SetStore(generate_from_analysis(TrailState, composite))
       /\ call_arg' = composite
  /\ call_op' = "generate_from_analysis"
  /\ call_result' = SubSeq(crumbs', Len(crumbs) + 1, Len(crumbs'))
  /\ UNCHANGED <<trail_file, persisted, trail_loaded>>

\* Chain ids the callers ask for: the store's own, one given to drop_crumb,
\* one of a stored record, one that was never used.
FollowChoices ==
  {trail_id, "chain-A", "never-used"}
    \cup { crumbs[i].chain_id : i \in 1..Len(crumbs) }

FollowChain ==
  /\ \E chain_id \in FollowChoices :
       /\ call_arg' = chain_id
       /\ call_result' = follow_chain(TrailStore, chain_id)
  /\ call_op' = "follow_chain"
  /\ UNCHANGED trailVars

\* persist(path) followed by CrumbTrail.load(path), the trail load returns
\* used as the store from then on
PersistThenLoad ==
  /\ clock < MaxClock
  /\ trail_file' = <<Snapshot(TrailStore, clock)>>
  /\ persisted' = <<TrailStore>>
  /\ clock' = clock + 1
  /\ LET trail == LoadSnapshot(trail_file'[1])
     IN  /\ trail_id' = trail.trail_id
         /\ crumbs' = trail.crumbs
         /\ chains' = trail.chains
         /\ trail_loaded' = <<trail>>
  /\ UNCHANGED uuid

(***************************************************************************)
(* CrumbTrail.decode_trail: the records whose marker is among the given.   *)
(***************************************************************************)

VARIABLES
  dec_op,        \* "none" or "decode_trail"
  dec_markers,   \* the markers of the last decode_trail call
  decoded        \* what that call returned

decVars == <<dec_op, dec_markers, decoded>>

DecodeInit ==
  /\ dec_op = "none"
  /\ dec_markers = {}
  /\ decoded = <<>>

\* the scan stopped at the first match
decode_trail_First(st, encoded_markers) ==
  LET all == SelectSeq(st.crumbs,
               LAMBDA crumb : encode_crumb(st.trail_id, crumb, "") \in encoded_markers)
  IN  IF all = <<>> THEN <<>> ELSE <<all[1]>>

\* CrumbTrail.decode_trail(encoded_markers)
decode_trail(st, encoded_markers) ==
  SelectSeq(st.crumbs,
    LAMBDA crumb : encode_crumb(st.trail_id, crumb, "") \in encoded_markers)

\* A marker no record of any store has.
ForeignMarker == "sk:00000000:0000000000000000"

\* Markers a caller holds: those encode_crumb gave for the stored records,
\* with or without a key, the one of the last encode_crumb call, a foreign one.
MarkerChoices ==
  { encode_crumb(trail_id, crumbs[i], key) : i \in 1..Len(crumbs), key \in EncodeKeys }
    \cup (IF enc_op = "encode_crumb" THEN {encoded} ELSE {})
    \cup {ForeignMarker}

MaxMarkers == 2

DecodeTrail ==
  /\ \E encoded_markers \in SUBSET MarkerChoices :
       /\ Cardinality(encoded_markers) <= MaxMarkers
       /\ dec_markers' = encoded_markers
       /\ decoded' = decode_trail(TrailStore, encoded_markers)
  /\ dec_op' = "decode_trail"
  /\ UNCHANGED trailVars

(***************************************************************************)
(* CrumbTrail.persist called by several threads.  The snapshot is built    *)
(* under the lock, the file is written after the lock is released.         *)
(***************************************************************************)

VARIABLES
  persist_pc,     \* thread -> "idle" or "write" (snapshot built, file not written)
  persist_data,   \* thread -> the snapshot it built: <<>> or <<data>>
  last_snapshot,  \* the snapshot built last by any persist call: <<>> or <<data>>
  stored_before   \* the records the store held when that call began

persistVars == <<persist_pc, persist_data, last_snapshot, stored_before>>

PersistInit ==
  /\ persist_pc = [t \in Threads |-> "idle"]
  /\ persist_data = [t \in Threads |-> <<>>]
  /\ last_snapshot = <<>>
  /\ stored_before = <<>>

\* persist(path) on thread t, lines 1288-1294: with self._lock: data = {...}
PersistSnapshot(t) ==
  /\ persist_pc[t] = "idle"
  /\ clock < MaxClock
  /\ persist_data' = [persist_data EXCEPT ![t] = <<Snapshot(TrailStore, clock)>>]
  /\ last_snapshot' = <<Snapshot(TrailStore, clock)>>
  /\ stored_before' = crumbs
  /\ clock' = clock + 1
  /\ persist_pc' = [persist_pc EXCEPT ![t] = "write"]
  /\ UNCHANGED <<trail_id, crumbs, chains, uuid, trail_file, persisted, trail_loaded>>

\* persist(path) on thread t, line 1295: path.write_text(json.dumps(data)),
\* after which the call returns
PersistWrite(t) ==
  /\ persist_pc[t] = "write"
  /\ trail_file' = persist_data[t]
  /\ persist_pc' = [persist_pc EXCEPT ![t] = "idle"]
  /\ persist_data' = [persist_data EXCEPT ![t] = <<>>]
  /\ UNCHANGED <<trail_id, crumbs, chains, uuid, clock, persisted, trail_loaded,
                 last_snapshot, stored_before>>

(***************************************************************************)
(* SkeletonKey: analyze and scan_corpus over the graph, the trail and the  *)
(* aggregator the key owns.                                                *)
(***************************************************************************)

VARIABLES
  key_op,       \* "none", "analyze" or "scan_corpus": the last call on the key
  key_args,     \* its arguments
  key_result,   \* what it returned
  key_calls     \* how many times analyze has run, scan_corpus's runs included

keyVars == <<key_op, key_args, key_result, key_calls>>

MaxKeyCalls == 2

KeyInit ==
  /\ key_op = "none"
  /\ key_args = <<>>
  /\ key_result = <<>>
  /\ key_calls = 0

\* The texts the callers analyze.
KeyTexts == {"", "the Board"}

SeeingDepths ==
  {"surface", "pattern", "structure", "generative", "recursive", "integral"}

\* What the detectors find in each text: the findings of the four
\* detectors, and the masks in the order identify_masks passes them to
\* add_actor.
KeyFindings ==
  [text \in KeyTexts |->
     [found |-> AnalysisOf(text, "surface"), results |-> MaskResults(text)]]

\* crumbs at every depth
GeneratesCrumbs_Always(depth) == TRUE

\* if depth.value in ("structure", "generative", "recursive", "integral")
GeneratesCrumbs(depth) ==
  depth \in {"structure", "generative", "recursive", "integral"}

\* The objects a key owns: its trail, its aggregator (with the clock the
\* aggregator reads and the file at its storage path), the actors of its
\* graph.  Nothing in analyze touches the edges of the graph.
KeyState ==
  [trail |-> TrailState, coll |-> CollState, coll_clock |-> coll_clock,
   coll_file |-> coll_file, actors |-> actors]

\* analysis = SystemAnalysis(...), lines 1711-1723
AssembleAnalysis(found, depth) ==
  SystemAnalysis(found.frames, found.masks, found.spells, found.prisons,
                 IF depth \in {"recursive", "integral"} THEN "exam" ELSE None,
                 depth)

\* lines 1725-1734 for the trail and the aggregator after them: the objects
\* after the call and what analyze returns (the analysis, its crumbs apart)
AnalyzeOutcome(ks, path, composite, contribute, trail, coll, acts) ==
  [state |->
     [trail |-> trail,
      coll |-> coll,
      coll_clock |->
        IF contribute
          THEN ks.coll_clock + (IF path # None THEN 2 ELSE 1)
          ELSE ks.coll_clock,
      coll_file |->
        IF contribute /\ path # None
          THEN <<SavedContent(coll, ks.coll_clock + 1)>>
          ELSE ks.coll_file,
      actors |-> acts],
   result |->
     [analysis |-> composite,
      crumbs |-> SubSeq(trail.crumbs, Len(ks.trail.crumbs) + 1,
                        Len(trail.crumbs))]]

\* Module 5 (crumbs at the deeper depths) and the contribution
AnalyzeComposite(ks, path, composite, results, depth, contribute) ==
  AnalyzeOutcome(ks, path, composite, contribute,
                 IF GeneratesCrumbs(depth)
                   THEN generate_from_analysis(ks.trail, composite)
                   ELSE ks.trail,
                 IF contribute
                   THEN Contributed(ks.coll, composite, ks.coll_clock)
                   ELSE ks.coll,
                 AddActors(ks.actors, results, Len(results)))

AnalyzeFound(ks, path, findings, depth, contribute) ==
  AnalyzeComposite(ks, path, AssembleAnalysis(findings.found, depth),
                   findings.results, depth, contribute)

\* SkeletonKey.analyze(text, depth=depth, contribute_to_collective=contribute)
\* on the objects ks, the aggregator storing at path
analyze(ks, path, text, depth, contribute) ==
  AnalyzeFound(ks, path, KeyFindings[text], depth, contribute)

ScanStep(before, this) ==
  [state |-> this.state, analyses |-> Append(before.analyses, this.result)]

\* analysis = self.analyze(text, ..., contribute_to_collective=True), at the
\* default depth; analyses.append(analysis)
ScanNext(before, path, text) ==
  ScanStep(before, analyze(before.state, path, text, "structure", TRUE))

\* The loop of scan_corpus over the first n texts.
RECURSIVE ScanLoop(_, _, _, _)
ScanLoop(ks, path, texts, n) ==
  IF n = 0 THEN [state |-> ks, analyses |-> <<>>]
  ELSE ScanNext(ScanLoop(ks, path, texts, n - 1), path, texts[n])

SetKeyState(ks) ==
  /\ SetStore(ks.trail)
  /\ SetCollState(ks.coll)
  /\ coll_clock' = ks.coll_clock
  /\ coll_file' = ks.coll_file
  /\ actors' = ks.actors
  /\ UNCHANGED <<trail_file, persisted, trail_loaded, storage_path, edges,
                 im_pc, im_text, im_added>>

\* the state after analyze(args) returned `call`
Analyzed(call, args) ==
  /\ SetKeyState(call.state)
  /\ graph_result' = call.result.analysis.masks
  /\ IF args.contribute
       THEN /\ coll_op' = "contribute"
            /\ coll_raised' = None
            /\ coll_result' = <<get_collective_map(call.state.coll)>>
       ELSE UNCHANGED <<coll_op, coll_raised, coll_result>>
  /\ key_args' = args
  /\ key_result' = call.result

\* key.analyze(text, depth=depth, contribute_to_collective=contribute)
Analyze ==
  /\ key_calls < MaxKeyCalls
  /\ \E text \in KeyTexts, depth \in SeeingDepths, contribute \in BOOLEAN :
       Analyzed(analyze(KeyState, storage_path, text, depth, contribute),
                [text |-> text, depth |-> depth, contribute |-> contribute])
  /\ graph_op' = "identify_masks"
  /\ key_op' = "analyze"
  /\ key_calls' = key_calls + 1

MaxCorpus == 2

\* The corpora the callers scan.
Corpora ==
  UNION { [1..n -> KeyTexts] : n \in 0..MaxCorpus }

\* the state after the loop of scan_corpus returned `scan`.  The aggregates
\* scan_corpus computes from the texts and the analyses change nothing; of
\* them the result keeps the collective map.
Scanned(scan, texts) ==
  /\ SetKeyState(scan.state)
  /\ IF texts # <<>>
       THEN /\ graph_op' = "identify_masks"
            /\ graph_result' = scan.analyses[Len(texts)].analysis.masks
       ELSE UNCHANGED <<graph_op, graph_result>>
  /\ key_result' =
       [corpus_size |-> Len(texts),
        individual_analyses |-> scan.analyses,
        collective_map |-> get_collective_map(scan.state.coll)]
  /\ coll_op' = "get_collective_map"
  /\ coll_raised' = None
  /\ coll_result' = <<key_result'.collective_map>>
  /\ key_args' = [texts |-> texts]
  /\ key_calls' = key_calls + Len(texts)

\* key.scan_corpus(texts)
ScanCorpus ==
  /\ \E texts \in Corpora :
       /\ key_calls + Len(texts) <= MaxKeyCalls
       /\ Scanned(ScanLoop(KeyState, storage_path, texts, Len(texts)), texts)
  /\ key_op' = "scan_corpus"

(***************************************************************************)
(* Specifications: one per component, each from the state its constructor  *)
(* leaves, the other components idle.                                      *)
(***************************************************************************)

funcVars == <<encVars, anaVars, archVars, scoreVars>>

FuncInit ==
  /\ EncodeInit
  /\ AnalysisInit
  /\ ArchInit
  /\ ScoreInit

restVars == <<decVars, persistVars, keyVars>>

moreVars == <<callVars, restVars>>

MoreInit ==
  /\ CallInit
  /\ DecodeInit
  /\ PersistInit
  /\ KeyInit

vars == <<trailVars, collVars, graphVars, threadVars, detVars, funcVars, moreVars>>

StoragePaths == {None, "collective.json"}

InitTrail ==
  /\ \E given \in {None, "", "trail-A"} : TrailInit(given)
  /\ CollectiveInit(None)
  /\ GraphInit
  /\ ThreadsInit
  /\ DetectInit
  /\ FuncInit
  /\ MoreInit

NextTrail ==
  \/ DropCrumb /\ UNCHANGED <<collVars, graphVars, threadVars, detVars, funcVars, moreVars>>
  \/ GenerateFromAnalysis /\ UNCHANGED <<collVars, graphVars, threadVars, detVars, funcVars, moreVars>>
  \/ Persist /\ UNCHANGED <<collVars, graphVars, threadVars, detVars, funcVars, moreVars>>
  \/ Load /\ UNCHANGED <<collVars, graphVars, threadVars, detVars, funcVars, moreVars>>

SpecTrail == InitTrail /\ [][NextTrail]_vars

InitCollective ==
  /\ TrailInit(None)
  /\ \E path \in StoragePaths : CollectiveInit(path)
  /\ GraphInit
  /\ ThreadsInit
  /\ DetectInit
  /\ FuncInit
  /\ MoreInit

\* contribute and get_collective_map on an aggregator that starts empty
NextCollective ==
  \/ Contribute /\ UNCHANGED <<trailVars, graphVars, threadVars, detVars, funcVars, moreVars>>
  \/ GetCollectiveMap /\ UNCHANGED <<trailVars, graphVars, threadVars, detVars, funcVars, moreVars>>

SpecCollective == InitCollective /\ [][NextCollective]_vars

\* the same with restarts of the process and a file that others damage
NextCollectiveLoad ==
  \/ Contribute /\ UNCHANGED <<trailVars, graphVars, threadVars, detVars, funcVars, moreVars>>
  \/ Reopen /\ UNCHANGED <<trailVars, graphVars, threadVars, detVars, funcVars, moreVars>>
  \/ DamageFile /\ UNCHANGED <<trailVars, graphVars, threadVars, detVars, funcVars, moreVars>>

SpecCollectiveLoad == InitCollective /\ [][NextCollectiveLoad]_vars

\* a long run of contribute calls, with restarts
NextHistory ==
  \/ ContributeLong /\ UNCHANGED <<trailVars, graphVars, threadVars, detVars, funcVars, moreVars>>
  \/ Reopen /\ UNCHANGED <<trailVars, graphVars, threadVars, detVars, funcVars, moreVars>>

SpecHistory == InitCollective /\ [][NextHistory]_vars

\* a long run that begins with contributions of any kind, and in which the
\* map is read and the process restarts
NextReopen ==
  \/ Contribute /\ UNCHANGED <<trailVars, graphVars, threadVars, detVars, funcVars, moreVars>>
  \/ ContributeLong /\ UNCHANGED <<trailVars, graphVars, threadVars, detVars, funcVars, moreVars>>
  \/ Reopen /\ UNCHANGED <<trailVars, graphVars, threadVars, detVars, funcVars, moreVars>>

SpecReopen == InitCollective /\ [][NextReopen]_vars

\* contribute from the threads of Threads
NextThreads ==
  \/ \E t \in Threads : Call(t) /\ UNCHANGED <<trailVars, graphVars, detVars, funcVars, moreVars>>
  \/ \E t \in Threads : Acquire(t) /\ UNCHANGED <<trailVars, graphVars, detVars, funcVars, moreVars>>
  \/ \E t \in Threads : AppendHistory(t) /\ UNCHANGED <<trailVars, graphVars, detVars, funcVars, moreVars>>
  \/ \E t \in Threads : ReadTotal(t) /\ UNCHANGED <<trailVars, graphVars, detVars, funcVars, moreVars>>
  \/ \E t \in Threads : WriteTotal(t) /\ UNCHANGED <<trailVars, graphVars, detVars, funcVars, moreVars>>
  \/ \E t \in Threads : UpdateFrequencies(t) /\ UNCHANGED <<trailVars, graphVars, detVars, funcVars, moreVars>>
  \/ \E t \in Threads : Save(t) /\ UNCHANGED <<trailVars, graphVars, detVars, funcVars, moreVars>>
  \/ \E t \in Threads : Return(t) /\ UNCHANGED <<trailVars, graphVars, detVars, funcVars, moreVars>>

SpecThreads == InitCollective /\ [][NextThreads]_vars

\* the same threads, on a disk whose writes can fail
NextSaveFails ==
  \/ NextThreads
  \/ \E t \in Threads : SaveFails(t) /\ UNCHANGED <<trailVars, graphVars, detVars, funcVars, moreVars>>

SpecSaveFails == InitCollective /\ [][NextSaveFails]_vars

InitGraph ==
  /\ TrailInit(None)
  /\ CollectiveInit(None)
  /\ GraphInit
  /\ ThreadsInit
  /\ DetectInit
  /\ FuncInit
  /\ MoreInit

\* one caller at a time on a graph
NextGraph ==
  \/ AddActor /\ UNCHANGED <<trailVars, collVars, threadVars, detVars, funcVars, moreVars>>
  \/ AddEdge /\ UNCHANGED <<trailVars, collVars, threadVars, detVars, funcVars, moreVars>>
  \/ IdentifyMasks /\ UNCHANGED <<trailVars, collVars, threadVars, detVars, funcVars, moreVars>>
  \/ FindPuppeteers /\ UNCHANGED <<trailVars, collVars, threadVars, detVars, funcVars, moreVars>>
  \/ UnmaskNetwork /\ UNCHANGED <<trailVars, collVars, threadVars, detVars, funcVars, moreVars>>

SpecGraph == InitGraph /\ [][NextGraph]_vars

\* one thread in identify_masks, the others in the other operations
NextGraphThreads ==
  \/ IdentifyMasksBegin /\ UNCHANGED <<trailVars, collVars, threadVars, detVars, funcVars, moreVars>>
  \/ IdentifyMasksIterate /\ UNCHANGED <<trailVars, collVars, threadVars, detVars, funcVars, moreVars>>
  \/ IdentifyMasksReturn /\ UNCHANGED <<trailVars, collVars, threadVars, detVars, funcVars, moreVars>>
  \/ AddActor /\ UNCHANGED <<trailVars, collVars, threadVars, detVars, funcVars, moreVars>>
  \/ AddEdge /\ UNCHANGED <<trailVars, collVars, threadVars, detVars, funcVars, moreVars>>
  \/ FindPuppeteers /\ UNCHANGED <<trailVars, collVars, threadVars, detVars, funcVars, moreVars>>
  \/ UnmaskNetwork /\ UNCHANGED <<trailVars, collVars, threadVars, detVars, funcVars, moreVars>>

SpecGraphThreads == InitGraph /\ [][NextGraphThreads]_vars

\* the detectors on texts
NextDetect ==
  \/ AppendFragment /\ UNCHANGED <<trailVars, collVars, graphVars, threadVars, funcVars, moreVars>>
  \/ DetectFrames /\ UNCHANGED <<trailVars, collVars, graphVars, threadVars, funcVars, moreVars>>
  \/ IdentifyMasksOf /\ UNCHANGED <<trailVars, collVars, graphVars, threadVars, funcVars, moreVars>>
  \/ AnalyzeSpells /\ UNCHANGED <<trailVars, collVars, graphVars, threadVars, funcVars, moreVars>>
  \/ MapPrisons /\ UNCHANGED <<trailVars, collVars, graphVars, threadVars, funcVars, moreVars>>

SpecDetect == InitGraph /\ [][NextDetect]_vars

\* encode_crumb on the crumbs of a trail
NextEncode ==
  \/ DropContent /\ UNCHANGED <<collVars, graphVars, threadVars, detVars, encVars, anaVars, archVars, scoreVars, moreVars>>
  \/ EncodeCrumb /\ UNCHANGED <<trailVars, collVars, graphVars, threadVars, detVars, anaVars, archVars, scoreVars, moreVars>>

SpecEncode == InitTrail /\ [][NextEncode]_vars

\* reads of awareness_score between changes of the analysis
NextAnalysis ==
  \/ AddFinding /\ UNCHANGED <<trailVars, collVars, graphVars, threadVars, detVars, encVars, archVars, scoreVars, moreVars>>
  \/ RemoveFinding /\ UNCHANGED <<trailVars, collVars, graphVars, threadVars, detVars, encVars, archVars, scoreVars, moreVars>>
  \/ SetSelfExamination /\ UNCHANGED <<trailVars, collVars, graphVars, threadVars, detVars, encVars, archVars, scoreVars, moreVars>>
  \/ ReadAwarenessScore /\ UNCHANGED <<trailVars, collVars, graphVars, threadVars, detVars, encVars, archVars, scoreVars, moreVars>>

SpecAnalysis == InitGraph /\ [][NextAnalysis]_vars

\* map_frame_architecture on corpora
NextArchitecture ==
  \/ AppendText /\ UNCHANGED <<trailVars, collVars, graphVars, threadVars, detVars, encVars, anaVars, scoreVars, moreVars>>
  \/ MapFrameArchitecture /\ UNCHANGED <<trailVars, collVars, graphVars, threadVars, detVars, encVars, anaVars, scoreVars, moreVars>>

SpecArchitecture == InitGraph /\ [][NextArchitecture]_vars

\* compute_cage_score on lists of prisons
NextCage ==
  \/ AppendPrison /\ UNCHANGED <<trailVars, collVars, graphVars, threadVars, detVars, encVars, anaVars, archVars, moreVars>>
  \/ ComputeCageScore /\ UNCHANGED <<trailVars, collVars, graphVars, threadVars, detVars, encVars, anaVars, archVars, moreVars>>

SpecCage == InitGraph /\ [][NextCage]_vars

\* compute_spell_potency on lists of spells
NextPotency ==
  \/ AppendSpell /\ UNCHANGED <<trailVars, collVars, graphVars, threadVars, detVars, encVars, anaVars, archVars, moreVars>>
  \/ ComputeSpellPotency /\ UNCHANGED <<trailVars, collVars, graphVars, threadVars, detVars, encVars, anaVars, archVars, moreVars>>

SpecPotency == InitGraph /\ [][NextPotency]_vars

\* the calls of a trail that return records
NextChains ==
  \/ DropOne /\ UNCHANGED <<collVars, graphVars, threadVars, detVars, funcVars, restVars>>
  \/ GenerateBatch /\ UNCHANGED <<collVars, graphVars, threadVars, detVars, funcVars, restVars>>
  \/ FollowChain /\ UNCHANGED <<collVars, graphVars, threadVars, detVars, funcVars, restVars>>

SpecChains == InitTrail /\ [][NextChains]_vars

\* records dropped, encoded and decoded
NextDecode ==
  \/ DropContent /\ UNCHANGED <<collVars, graphVars, threadVars, detVars, funcVars, moreVars>>
  \/ EncodeCrumb /\ UNCHANGED <<trailVars, collVars, graphVars, threadVars, detVars, anaVars, archVars, scoreVars, moreVars>>
  \/ DecodeTrail /\ UNCHANGED <<collVars, graphVars, threadVars, detVars, funcVars, callVars, persistVars, keyVars>>

SpecDecode == InitTrail /\ [][NextDecode]_vars

\* A trail and a graph share no state: a run works on the one while the
\* other is as its constructor left it.
TrailIdle == TrailInit(None)

GraphIdle == GraphInit

\* every operation of a trail and of a graph
NextStores ==
  \/ GraphIdle /\ DropCrumb /\ UNCHANGED <<collVars, graphVars, threadVars, detVars, funcVars, moreVars>>
  \/ GraphIdle /\ GenerateFromAnalysis /\ UNCHANGED <<collVars, graphVars, threadVars, detVars, funcVars, moreVars>>
  \/ GraphIdle /\ Persist /\ UNCHANGED <<collVars, graphVars, threadVars, detVars, funcVars, moreVars>>
  \/ GraphIdle /\ Load /\ UNCHANGED <<collVars, graphVars, threadVars, detVars, funcVars, moreVars>>
  \/ TrailIdle /\ AddActor /\ UNCHANGED <<trailVars, collVars, threadVars, detVars, funcVars, moreVars>>
  \/ TrailIdle /\ AddEdge /\ UNCHANGED <<trailVars, collVars, threadVars, detVars, funcVars, moreVars>>
  \/ TrailIdle /\ IdentifyMasks /\ UNCHANGED <<trailVars, collVars, threadVars, detVars, funcVars, moreVars>>
  \/ TrailIdle /\ FindPuppeteers /\ UNCHANGED <<trailVars, collVars, threadVars, detVars, funcVars, moreVars>>
  \/ TrailIdle /\ UnmaskNetwork /\ UNCHANGED <<trailVars, collVars, threadVars, detVars, funcVars, moreVars>>

SpecStores == InitTrail /\ [][NextStores]_vars

\* records dropped one by one and in batches, the trail persisted and loaded
NextReload ==
  \/ DropOne /\ UNCHANGED <<collVars, graphVars, threadVars, detVars, funcVars, restVars>>
  \/ GenerateBatch /\ UNCHANGED <<collVars, graphVars, threadVars, detVars, funcVars, restVars>>
  \/ PersistThenLoad /\ UNCHANGED <<collVars, graphVars, threadVars, detVars, funcVars, moreVars>>

SpecReload == InitGraph /\ [][NextReload]_vars

\* threads that persist a trail while records are dropped on it
NextPersistThreads ==
  \/ \E t \in Threads : PersistSnapshot(t) /\ UNCHANGED <<collVars, graphVars, threadVars, detVars, funcVars, callVars, decVars, keyVars>>
  \/ \E t \in Threads : PersistWrite(t) /\ UNCHANGED <<collVars, graphVars, threadVars, detVars, funcVars, callVars, decVars, keyVars>>
  \/ DropContent /\ UNCHANGED <<collVars, graphVars, threadVars, detVars, funcVars, moreVars>>

SpecPersistThreads == InitTrail /\ [][NextPersistThreads]_vars

\* the calls on a key
NextKey ==
  \/ Analyze /\ UNCHANGED <<threadVars, detVars, funcVars, callVars, decVars, persistVars>>
  \/ ScanCorpus /\ UNCHANGED <<threadVars, detVars, funcVars, callVars, decVars, persistVars>>

SpecKey == InitCollective /\ [][NextKey]_vars

(***************************************************************************)
(* The claims.                                                             *)
(***************************************************************************)

(***************************************************************************)
(* C1.  For every store that drop_crumb and generate_from_analysis calls   *)
(* build, persist followed by load gives back the same store: the same     *)
(* trail_id, the same crumbs in the same order with every field equal,     *)
(* and the same chain index.  The file persist wrote loads to the store    *)
(* persist was called on.                                                  *)
(***************************************************************************)
C1_PersistLoadRoundTrip ==
  /\ LoadSnapshot(Snapshot(TrailStore, clock)) = TrailStore
  /\ trail_file # <<>> => LoadSnapshot(trail_file[1]) = persisted[1]
  /\ (trail_loaded # <<>> /\ trail_loaded[1].crumbs = crumbs)
       => trail_loaded[1] = TrailStore

C1_Witness ==
  /\ trail_loaded # <<>>
  /\ trail_loaded[1] = TrailStore
  /\ Len(crumbs) >= 3
  /\ Cardinality(DOMAIN chains) >= 2
  /\ \E i \in 1..Len(crumbs) : crumbs[i].crumb_type = BRIDGE

(***************************************************************************)
(* C2 as claimed.  After any sequence of contribute calls the history of   *)
(* the aggregator holds at most 100 entries.                               *)
(***************************************************************************)
C2_HistoryAtMostCap == Len(analyses) <= HistoryCap

(***************************************************************************)
(* C2 as amended.  The history that contribute writes to the snapshot      *)
(* holds at most 100 entries, and they are the most recent entries of the  *)
(* history in memory, in order; the history in memory is cut only by a     *)
(* restart, so it holds every contribution made since.                     *)
(***************************************************************************)
C2_PersistedHistoryBounded ==
  /\ coll_file # <<>> =>
       /\ Len(coll_file[1].data.analyses) <= HistoryCap
       /\ coll_file[1].data.analyses = LastN(analyses, HistoryCap)
  /\ coll_op = "contribute" => Len(analyses) >= Min(total_analyses, HistoryCap)
  /\ storage_path = None => Len(analyses) = total_analyses

C2_Witness ==
  /\ coll_file # <<>>
  /\ coll_op = "contribute"
  /\ Len(analyses) > HistoryCap
  /\ Len(coll_file[1].data.analyses) = HistoryCap
  /\ coll_file[1].data.analyses[1] = analyses[Len(analyses) - HistoryCap + 1]

(***************************************************************************)
(* C3.  Constructing an aggregator over a missing or corrupt snapshot      *)
(* raises nothing and leaves the aggregator in the empty initial state.    *)
(***************************************************************************)
C3_CorruptSnapshotStartsEmpty ==
  (/\ coll_op = "init"
   /\ storage_path # None
   /\ (coll_file = <<>> \/ coll_file[1] \in ForeignContents))
    => (coll_raised = None /\ CollState = EmptyCollState)

(***************************************************************************)
(* C4.  On an aggregator that started empty, after N >= 1 contribute calls *)
(* whose analyses each carry exactly one finding of a category, of subtype *)
(* X, the category's counter for X is N, and get_collective_map (also the  *)
(* map the last contribute returned) reports the proportion 1.0 for X.     *)
(***************************************************************************)
Subtypes(table) == { table[i].type : i \in 1..Len(table) }

Pct(distribution, key) ==
  IF \E i \in 1..Len(distribution) : distribution[i].key = key
    THEN distribution[CHOOSE i \in 1..Len(distribution) :
                        distribution[i].key = key].pct
    ELSE -1

AllTagged(field, X) ==
  /\ total_analyses >= 1
  /\ Len(analyses) = total_analyses
  /\ \A i \in 1..Len(analyses) : analyses[i][field] = <<X>>

CountsAllOf(counter, distribution, X) ==
  /\ Count(counter, X) = total_analyses
  /\ Pct(get_collective_map(CollState)[distribution], X) = 1000
  /\ coll_op = "contribute" => Pct(coll_result[1][distribution], X) = 1000

C4_CounterEqualsCalls ==
  /\ \A X \in Subtypes(FRAME_SIGNALS) :
       AllTagged("frame_types", X)
         => CountsAllOf(frame_frequencies, "frame_distribution", X)
  /\ \A X \in Subtypes(MASK_SIGNALS) :
       AllTagged("mask_types", X)
         => CountsAllOf(mask_frequencies, "mask_distribution", X)
  /\ \A X \in Subtypes(SPELL_SIGNALS) :
       AllTagged("spell_types", X)
         => CountsAllOf(spell_frequencies, "spell_distribution", X)
  /\ \A X \in Subtypes(PRISON_SIGNALS) :
       AllTagged("prison_types", X)
         => CountsAllOf(prison_frequencies, "prison_distribution", X)

C4_Witness ==
  /\ total_analyses = MaxContributions
  /\ coll_op = "contribute"
  /\ AllTagged("frame_types", "NORMATIVE")
  /\ Count(frame_frequencies, "NORMATIVE") = MaxContributions

(***************************************************************************)
(* C5.  In every graph that add_actor, add_edge and identify_masks calls   *)
(* build, find_puppeteers returns, once each, exactly the registered       *)
(* actors whose outgoing edge weights sum to more than their incoming      *)
(* ones and who are the source of at least one invisible edge: no actor    *)
(* with out <= in, none without a hidden edge, no endpoint that was never  *)
(* registered.  With A->B 0.9 invisible, C->B 0.1 visible and A and C      *)
(* registered, it returns A and not C.                                     *)
(***************************************************************************)
RegisteredActors == { actors[i].actor : i \in 1..Len(actors) }

RECURSIVE WeightSum(_, _)
WeightSum(es, I) ==
  IF I = {} THEN 0
  ELSE LET i == CHOOSE i \in I : TRUE
       IN  es[i].weight + WeightSum(es, I \ {i})

OutWeight(a) == WeightSum(edges, {i \in 1..Len(edges) : edges[i].source = a})
InWeight(a) == WeightSum(edges, {i \in 1..Len(edges) : edges[i].target = a})
HasHiddenEdge(a) ==
  \E i \in 1..Len(edges) : edges[i].source = a /\ ~edges[i].visible

ExpectedPuppeteers ==
  { a \in RegisteredActors : OutWeight(a) > InWeight(a) /\ HasHiddenEdge(a) }

ReturnedActors(result) == { result[i].actor : i \in 1..Len(result) }

ScenarioEdges ==
  <<InfluenceEdge("A", "B", 9, FALSE), InfluenceEdge("C", "B", 1, TRUE)>>

C5_PuppeteersExact ==
  graph_op = "find_puppeteers" =>
    /\ ReturnedActors(graph_result) = ExpectedPuppeteers
    /\ Len(graph_result) = Cardinality(ExpectedPuppeteers)
    /\ (edges = ScenarioEdges /\ RegisteredActors = {"A", "C"})
         => ReturnedActors(graph_result) = {"A"}

C5_Witness ==
  /\ graph_op = "find_puppeteers"
  /\ edges = ScenarioEdges
  /\ RegisteredActors = {"A", "C"}
  /\ Len(graph_result) = 1
  /\ graph_result[1].actor = "A"

(***************************************************************************)
(* C6.  An unmask_network or find_puppeteers call that runs while another  *)
(* thread is in identify_masks sees none or all of the actors that this    *)
(* identify_masks call registers, never some of them: the network has      *)
(* none or all of them, and the puppeteers include none of them or every   *)
(* one of them that the edges make a puppeteer.                            *)
(***************************************************************************)
Upserts ==
  { GraphResults[im_text][i].item.actor : i \in 1..Len(GraphResults[im_text]) }

NoneOrAll(seen, all) == seen = {} \/ seen = all

C6_NoPartialObservation ==
  /\ graph_op = "unmask_network" =>
       NoneOrAll(ReturnedActors(graph_result.actors) \cap Upserts, Upserts)
  /\ graph_op = "find_puppeteers" =>
       NoneOrAll(ReturnedActors(graph_result) \cap Upserts,
                 { a \in Upserts : OutWeight(a) > InWeight(a) /\ HasHiddenEdge(a) })

(***************************************************************************)
(* C7.  Once every contribute call that the threads made has returned:     *)
(* total_analyses is the number of calls, the history has one entry per    *)
(* call, every counter holds the number of occurrences of its tag in the   *)
(* analyses contributed, and the k-th call to return returned a map with   *)
(* total_analyses = k, which counts its own contribution.                  *)
(***************************************************************************)
AllReturned == \A t \in Threads : pc[t] = "idle"

RECURSIVE OccurrencesIn(_, _)
OccurrencesIn(tags, tag) ==
  IF tags = <<>> THEN 0
  ELSE (IF tags[1] = tag THEN 1 ELSE 0) + OccurrencesIn(Tail(tags), tag)

RECURSIVE Occurrences(_, _, _)
Occurrences(cs, field, tag) ==
  IF cs = <<>> THEN 0
  ELSE OccurrencesIn(Anonymized(cs[1], 0)[field], tag)
         + Occurrences(Tail(cs), field, tag)

CounterCounts(counter, table, field) ==
  /\ \A tag \in Subtypes(table) :
       Count(counter, tag) = Occurrences(calls, field, tag)
  /\ \A i \in 1..Len(counter) : counter[i].key \in Subtypes(table)

C7_NoLostUpdate ==
  AllReturned =>
    /\ total_analyses = Len(calls)
    /\ Len(analyses) = Len(calls)
    /\ CounterCounts(frame_frequencies, FRAME_SIGNALS, "frame_types")
    /\ CounterCounts(mask_frequencies, MASK_SIGNALS, "mask_types")
    /\ CounterCounts(spell_frequencies, SPELL_SIGNALS, "spell_types")
    /\ CounterCounts(prison_frequencies, PRISON_SIGNALS, "prison_types")
    /\ Len(returned) = Len(calls)
    /\ \A k \in 1..Len(returned) : returned[k] = k

C7_Witness ==
  /\ AllReturned
  /\ Len(calls) = MaxContributions
  /\ total_analyses = MaxContributions
  /\ Len(returned) = MaxContributions
  /\ Count(frame_frequencies, "NORMATIVE") >= 1
  /\ Count(prison_frequencies, "CHOICE_ARCHITECTURE") >= 1

(***************************************************************************)
(* C8.  For each of the four detectors: when the text it scans (for        *)
(* detect_frames the text and the context, joined by a space) contains no  *)
(* keyword of the detector's table in any letter case, the detector        *)
(* returns the empty list.  The empty text is such a text.                 *)
(***************************************************************************)
TableOf(op) ==
  CASE op = "detect_frames" -> FRAME_SIGNALS
    [] op = "identify_masks" -> MASK_SIGNALS
    [] op = "analyze_spells" -> SPELL_SIGNALS
    [] op = "map_prisons" -> PRISON_SIGNALS

ScannedText ==
  IF det_op = "detect_frames" THEN DetText \o " " \o det_context ELSE DetText

NoneIn(table, text_lower) ==
  \A i \in 1..Len(table) : \A j \in 1..Len(table[i].signals) :
    ~Contains(text_lower, Lower(table[i].signals[j]))

NoKeyword(table, text) == NoneIn(table, Lower(text))

C8_NoKeywordNoFinding ==
  (det_op # "none" /\ NoKeyword(TableOf(det_op), ScannedText))
    => det_result = <<>>

C8_Witness ==
  /\ det_op = "detect_frames"
  /\ det_parts = <<"in common">>
  /\ det_context = ""
  /\ NoKeyword(FRAME_SIGNALS, ScannedText)
  /\ det_result = <<>>

(***************************************************************************)
(* C9.  Every finding a detector returns has its primary score (strength   *)
(* of a frame, potency of a spell, elegance of a prison; a mask has none)  *)
(* between 0 and 1, its matched keywords, read back from the finding, are  *)
(* a non-empty list of keywords of the finding's subtype, and no other     *)
(* finding of the result has the same subtype.                             *)
(***************************************************************************)
\* s.split(sep), for a separator that cannot overlap itself
SeparatorsAt(s, sep) ==
  { i \in 1..(Len(s) - Len(sep) + 1) : SubSeq(s, i, i + Len(sep) - 1) = sep }

RECURSIVE SplitAt(_, _, _, _)
SplitAt(s, sep, P, start) ==
  IF P = {} THEN <<SubSeq(s, start, Len(s))>>
  ELSE LET i == CHOOSE i \in P : \A j \in P : i <= j
       IN  <<SubSeq(s, start, i - 1)>> \o SplitAt(s, sep, P \ {i}, i + Len(sep))

Split(s, sep) == SplitAt(s, sep, SeparatorsAt(s, sep), 1)

\* line without its first n and its last m characters
Strip(line, n, m) == SubSeq(line, n + 1, Len(line) - m)

\* The matched keywords, as the finding shows them.
MatchedOf(op, f) ==
  CASE op = "detect_frames" ->
         [i \in 1..Len(f.unspoken_rules) |->
            Strip(f.unspoken_rules[i], Len("Signal detected: '"), 1)]
    [] op = "identify_masks" -> Split(f.formal_role, ", ")
    [] op = "analyze_spells" ->
         Split(Strip(f.narrative, Len("Detected narrative signals: "), 0), ", ")
    [] op = "map_prisons" ->
         [i \in 1..Len(f.invisible_walls) |->
            Strip(f.invisible_walls[i], Len("Signal: '"), 1)]

SubtypeOf(op, f) ==
  CASE op = "detect_frames" -> f.frame_type
    [] op = "identify_masks" -> f.mask_type
    [] op = "analyze_spells" -> f.spell_type
    [] op = "map_prisons" -> f.prison_type

PrimaryScores(op, f) ==
  CASE op = "detect_frames" -> {f.strength}
    [] op = "identify_masks" -> {}
    [] op = "analyze_spells" -> {f.potency}
    [] op = "map_prisons" -> {f.elegance}

TableIndex(op, f) ==
  CHOOSE i \in 1..Len(TableOf(op)) : TableOf(op)[i].type = SubtypeOf(op, f)

KeywordsOf(op, f) ==
  LET signals == TableOf(op)[TableIndex(op, f)].signals
  IN  { signals[j] : j \in 1..Len(signals) }

InUnitInterval(x) == FracLe(FracZero, x) /\ FracLe(x, FracOne)

C9_FindingsWellFormed ==
  det_op # "none" =>
    \A i \in 1..Len(det_result) :
      LET f == det_result[i]
          matched == MatchedOf(det_op, f)
      IN  /\ \A x \in PrimaryScores(det_op, f) : InUnitInterval(x)
          /\ SubtypeOf(det_op, f) \in Subtypes(TableOf(det_op))
          /\ matched # <<>>
          /\ \A j \in 1..Len(matched) : matched[j] \in KeywordsOf(det_op, f)
          /\ \A j \in 1..Len(det_result) :
               j # i => SubtypeOf(det_op, det_result[j]) # SubtypeOf(det_op, f)

C9_Witness ==
  /\ det_op = "analyze_spells"
  /\ Len(det_result) >= 3
  /\ \E i \in 1..Len(det_result) :
       /\ det_result[i].potency = FracOne
       /\ Len(MatchedOf(det_op, det_result[i])) = 4

(***************************************************************************)
(* C10.  Each detector returns its findings in descending order of its     *)
(* sort key, findings of equal key in table order.  The key is the density *)
(* (matched keywords / keywords of the subtype) in detect_frames and       *)
(* identify_masks; it is the potency min(2.5 * density, 1) in              *)
(* analyze_spells and the elegance min(2 * density, 1) in map_prisons.     *)
(* As stated, with the density as the key of all four, the property fails: *)
(* two spells or prisons whose scores are both capped at 1 stay in table   *)
(* order whatever their densities.                                         *)
(***************************************************************************)
DensityOf(op, f) ==
  Frac(Len(MatchedOf(op, f)), Cardinality(KeywordsOf(op, f)))

SortKeyOf(op, f) ==
  CASE op = "detect_frames" -> DensityOf(op, f)
    [] op = "identify_masks" -> DensityOf(op, f)
    [] op = "analyze_spells" -> f.potency
    [] op = "map_prisons" -> f.elegance

\* f comes before g: a greater key, or an equal key and earlier in the table
Before(op, f, g, kf, kg) ==
  \/ FracLt(kg, kf)
  \/ FracEq(kf, kg) /\ TableIndex(op, f) < TableIndex(op, g)

C10_SortedByDensity ==
  det_op # "none" =>
    \A i, j \in 1..Len(det_result) :
      i < j => Before(det_op, det_result[i], det_result[j],
                      DensityOf(det_op, det_result[i]),
                      DensityOf(det_op, det_result[j]))

C10_SortedBySortKey ==
  det_op # "none" =>
    \A i, j \in 1..Len(det_result) :
      i < j => Before(det_op, det_result[i], det_result[j],
                      SortKeyOf(det_op, det_result[i]),
                      SortKeyOf(det_op, det_result[j]))

C10_Witness ==
  /\ det_op = "map_prisons"
  /\ Len(det_result) >= 2
  /\ FracLt(DensityOf(det_op, det_result[1]), DensityOf(det_op, det_result[2]))
  /\ det_result[1].elegance = FracOne
  /\ det_result[2].elegance = FracOne

(***************************************************************************)
(* C11.  Matching is case-folded: whenever the text a detector scans       *)
(* contains a keyword of a subtype of its table in any letter case, the    *)
(* result has a finding of that subtype whose matched keywords include     *)
(* that keyword.                                                           *)
(***************************************************************************)
C11_KeywordInAnyCaseMatches ==
  det_op # "none" =>
    LET table == TableOf(det_op)
        text_lower == Lower(ScannedText)
    IN  \A i \in 1..Len(table) : \A j \in 1..Len(table[i].signals) :
          Contains(text_lower, Lower(table[i].signals[j])) =>
            \E n \in 1..Len(det_result) :
              /\ SubtypeOf(det_op, det_result[n]) = table[i].type
              /\ \E m \in 1..Len(MatchedOf(det_op, det_result[n])) :
                   MatchedOf(det_op, det_result[n])[m] = table[i].signals[j]

(***************************************************************************)
(* C12.  identify_masks registers each mask it returns under the label     *)
(* "[Actor performing <subtype>]".  In every graph the calls build there   *)
(* is at most one actor per such label, holding a mask of that subtype;    *)
(* each identify_masks call leaves under the label of every subtype it     *)
(* matched the mask it returned for it, in place of the earlier one, and   *)
(* leaves the slots of the other subtypes as they were.                    *)
(***************************************************************************)
Slot(acts, label) ==
  LET under == SelectSeq(acts, LAMBDA e : e.actor = label)
  IN  [i \in 1..Len(under) |-> under[i].mask]

MasksOfType(result, mask_type) ==
  SelectSeq(result, LAMBDA m : m.mask_type = mask_type)

MaskTypes == Subtypes(MASK_SIGNALS)

C12_LatestMaskPerSubtype ==
  /\ [](\A mask_type \in MaskTypes :
          LET slot == Slot(actors, MaskActor(mask_type))
          IN  /\ Len(slot) <= 1
              /\ \A i \in 1..Len(slot) : slot[i].mask_type = mask_type)
  /\ [][graph_op' = "identify_masks" =>
          \A mask_type \in MaskTypes :
            LET returned_masks == MasksOfType(graph_result', mask_type)
            IN  Slot(actors', MaskActor(mask_type)) =
                  IF returned_masks # <<>> THEN <<returned_masks[1]>>
                  ELSE Slot(actors, MaskActor(mask_type))]_vars

C12_Witness ==
  /\ graph_op = "identify_masks"
  /\ Len(graph_result) = 1
  /\ graph_result[1].formal_role = "board"
  /\ Slot(actors, AUTHORITY_ACTOR) = <<graph_result[1]>>
  /\ Len(Slot(actors, EXPERTISE_ACTOR)) = 1
  /\ Cardinality({ i \in 1..Len(actors) : actors[i].mask.formal_role # "" }) = 2

(***************************************************************************)
(* C13.  The marker encode_crumb returns is "sk:", eight hexadecimal       *)
(* digits, ":" and sixteen hexadecimal digits: 28 characters that depend   *)
(* on the content only through its digest.  It does not contain the        *)
(* content of the crumb whenever that content is longer than the marker or *)
(* has a character that is neither a hexadecimal digit nor one of "s",     *)
(* "k", ":".                                                               *)
(***************************************************************************)
HexDigits == "0123456789abcdef"
HexChars == { CharAt(HexDigits, i) : i \in 1..Len(HexDigits) }
MarkerChars == HexChars \cup {"s", "k", ":"}
MarkerLen == Len("sk:") + 8 + Len(":") + 16

IsHex(s) == \A i \in 1..Len(s) : CharAt(s, i) \in HexChars

C13_MarkerHidesContent ==
  enc_op = "encode_crumb" =>
    LET content == enc_crumb[1].content
    IN  /\ Len(encoded) = MarkerLen
        /\ SubSeq(encoded, 1, 3) = "sk:"
        /\ IsHex(SubSeq(encoded, 4, 11))
        /\ CharAt(encoded, 12) = ":"
        /\ IsHex(SubSeq(encoded, 13, 28))
        /\ (\/ Len(content) > MarkerLen
            \/ \E i \in 1..Len(content) : CharAt(content, i) \notin MarkerChars)
             => ~Contains(encoded, content)

C13_Witness ==
  /\ enc_op = "encode_crumb"
  /\ enc_crumb[1].content = "Who benefits?"
  /\ enc_key = "k1"
  /\ ~Contains(encoded, "Who benefits?")

\* C13 as stated: the marker never contains the content of the crumb.
C13_NeverContainsContent ==
  enc_op = "encode_crumb" => ~Contains(encoded, enc_crumb[1].content)

(***************************************************************************)
(* C14.  Every read of awareness_score returns the mean of six sub-scores  *)
(* computed from the lists as they are at the read: min(count/3, 1) for    *)
(* frames, masks, spells and prisons, min(edge count/5, 1), and 1 if a     *)
(* self-examination is present else 0; the value lies in [0, 1].           *)
(***************************************************************************)
SubScores(a) ==
  << FracMin(Frac(Len(a.frames), 3), FracOne),
     FracMin(Frac(Len(a.masks), 3), FracOne),
     FracMin(Frac(Len(a.spells), 3), FracOne),
     FracMin(Frac(Len(a.prisons), 3), FracOne),
     FracMin(Frac(Len(a.influence_edges), 5), FracOne),
     IF a.self_examination # None THEN FracOne ELSE FracZero >>

MeanOf(fs) == FracScale(FracSum(fs), 1, Len(fs))

C14_ScoreIsMeanAtEveryRead ==
  ana_op = "awareness_score" =>
    /\ Len(SubScores(analysis)) = 6
    /\ FracEq(ana_score[1], MeanOf(SubScores(analysis)))
    /\ InUnitInterval(ana_score[1])

\* a read after findings were added past the caps
C14_Witness ==
  /\ ana_op = "awareness_score"
  /\ Len(analysis.frames) = MaxFindings
  /\ Len(analysis.masks) = 2
  /\ Len(analysis.influence_edges) = MaxInfluenceEdges
  /\ analysis.self_examination # None
  /\ FracEq(ana_score[1], Frac(17, 18))
  /\ Len(analysis.frames) = MaxFindings
  /\ Len(analysis.masks) = 2
  /\ Len(analysis.influence_edges) = MaxInfluenceEdges
  /\ analysis.self_examination # None

(***************************************************************************)
(* C15.  A Frame finding has visibility = 1 - strength.  A Spell finding   *)
(* has reach = its density (matched keywords / keywords of the subtype)    *)
(* and potency = min(2.5 * reach, 1).                                      *)
(***************************************************************************)
C15_SecondaryScores ==
  /\ det_op = "detect_frames" =>
       \A i \in 1..Len(det_result) :
         FracEq(FracAdd(det_result[i].visibility, det_result[i].strength), FracOne)
  /\ det_op = "analyze_spells" =>
       \A i \in 1..Len(det_result) :
         LET spell == det_result[i]
         IN  /\ FracEq(spell.reach, DensityOf(det_op, spell))
             /\ FracEq(spell.potency,
                       FracMin(FracScale(spell.reach, 5, 2), FracOne))

\* a text with a spell whose reach is not 1 - potency and a frame of
\* strength below 1
C15_Witness ==
  /\ det_op = "analyze_spells"
  /\ \E i \in 1..Len(det_result) :
       ~FracEq(FracAdd(det_result[i].reach, det_result[i].potency), FracOne)
  /\ LET frames == detect_frames(DetText, det_context)
     IN  \E i \in 1..Len(frames) :
           /\ FracLt(frames[i].strength, FracOne)
           /\ FracLt(FracZero, frames[i].visibility)

\* C15 as stated: visibility = 1 - strength and reach = 1 - potency.
C15_SecondaryIsOneMinusPrimary ==
  /\ det_op = "detect_frames" =>
       \A i \in 1..Len(det_result) :
         FracEq(FracAdd(det_result[i].visibility, det_result[i].strength), FracOne)
  /\ det_op = "analyze_spells" =>
       \A i \in 1..Len(det_result) :
         FracEq(FracAdd(det_result[i].reach, det_result[i].potency), FracOne)

(***************************************************************************)
(* C16.  In the map map_frame_architecture returns, the frequency of a     *)
(* frame type is the number of texts of the corpus in which it was         *)
(* detected, and for two distinct types the co-occurrence count under the  *)
(* key "<smaller name>-<larger name>" is the number of texts in which both *)
(* were detected; there is no entry under the other order, no key occurs   *)
(* twice and no entry has count 0.                                         *)
(***************************************************************************)
FrameTypes == Subtypes(FRAME_SIGNALS)

DetectedIn(text) ==
  { ArchFrames[text][i].frame_type : i \in 1..Len(ArchFrames[text]) }

TextsWith(types) ==
  Cardinality({ k \in 1..Len(arch_texts) : types \subseteq DetectedIn(arch_texts[k]) })

UniqueKeys(counter) ==
  \A i, j \in 1..Len(counter) : counter[i].key = counter[j].key => i = j

C16_FrequencyAndCoOccurrence ==
  arch_op = "map_frame_architecture" =>
    LET result == arch_result[1]
    IN  /\ UniqueKeys(result.frame_frequency)
        /\ UniqueKeys(result.co_occurrence_matrix)
        /\ \A i \in 1..Len(result.frame_frequency) :
             /\ result.frame_frequency[i].key \in FrameTypes
             /\ result.frame_frequency[i].count > 0
        /\ \A i \in 1..Len(result.co_occurrence_matrix) :
             result.co_occurrence_matrix[i].count > 0
        /\ \A a \in FrameTypes :
             Count(result.frame_frequency, a) = TextsWith({a})
        /\ \A a, b \in FrameTypes :
             StrLess(a, b) =>
               /\ Count(result.co_occurrence_matrix, a \o "-" \o b) = TextsWith({a, b})
               /\ Count(result.co_occurrence_matrix, b \o "-" \o a) = 0

\* two texts that yield the same two types in opposite orders
C16_Witness ==
  /\ arch_op = "map_frame_architecture"
  /\ arch_texts = <<"NORMAL market roi", "normal natural market", "policy">>
  /\ ArchFrames["NORMAL market roi"][1].frame_type = "ECONOMIC"
  /\ ArchFrames["normal natural market"][1].frame_type = "NORMATIVE"
  /\ arch_result[1].co_occurrence_matrix = <<[key |-> "ECONOMIC-NORMATIVE", count |-> 2]>>
  /\ Count(arch_result[1].frame_frequency, "INSTITUTIONAL") = 1

(***************************************************************************)
(* C17.  map_frame_architecture reports a total equal to the sum of the    *)
(* frequency map; its dominant frame has the largest frequency and, among  *)
(* the types of that frequency, is the one detected first in the corpus;   *)
(* the dominant frame is None exactly when no frame was detected, and then *)
(* the insight is the fallback sentence.  An empty corpus gives total 0,   *)
(* dominant None and that non-empty insight.                               *)
(***************************************************************************)
RECURSIVE SumCounts(_)
SumCounts(counter) ==
  IF counter = <<>> THEN 0 ELSE counter[1].count + SumCounts(Tail(counter))

\* where in the corpus a type is first detected: text k, finding i
FirstSeen(type) ==
  LET seen == { <<k, i>> \in (1..Len(arch_texts)) \X (1..Cardinality(FrameTypes)) :
                  /\ i <= Len(ArchFrames[arch_texts[k]])
                  /\ ArchFrames[arch_texts[k]][i].frame_type = type }
      first == CHOOSE p \in seen :
                 \A q \in seen : p[1] < q[1] \/ (p[1] = q[1] /\ p[2] <= q[2])
  IN  first[1] * (Cardinality(FrameTypes) + 1) + first[2]

FallbackInsight == generate_frame_insight(<<>>, <<>>)

C17_TotalAndDominant ==
  arch_op = "map_frame_architecture" =>
    LET result == arch_result[1]
        dominant == result.dominant_frame
        detected == { a \in FrameTypes : TextsWith({a}) > 0 }
    IN  /\ result.total_frames_detected = SumCounts(result.frame_frequency)
        /\ dominant = None <=> detected = {}
        /\ dominant # None =>
             /\ dominant \in detected
             /\ \A a \in detected \ {dominant} :
                  \/ Count(result.frame_frequency, a) < Count(result.frame_frequency, dominant)
                  \/ /\ Count(result.frame_frequency, a) = Count(result.frame_frequency, dominant)
                     /\ FirstSeen(dominant) < FirstSeen(a)
        /\ dominant = None => result.insight = FallbackInsight
        /\ result.insight # ""
        /\ arch_texts = <<>> =>
             /\ result.total_frames_detected = 0
             /\ dominant = None

\* three types of frequency 1: the dominant one is the first detected
C17_Witness ==
  /\ arch_op = "map_frame_architecture"
  /\ arch_texts = <<"policy", "NORMAL market roi">>
  /\ arch_result[1].total_frames_detected = 3
  /\ arch_result[1].dominant_frame = "INSTITUTIONAL"
  /\ Count(arch_result[1].frame_frequency, "ECONOMIC") = 1

(***************************************************************************)
(* C18.  For a non-empty list of n prisons compute_cage_score reports      *)
(* cage_score = min(mean elegance + min(0.1 n, 0.5), 1.0), a value in      *)
(* [0, 1], with the label that is the threshold class of the reported      *)
(* cage_score (>= 0.8, >= 0.6, >= 0.4, >= 0.2, otherwise the bottom        *)
(* label); for the empty list it returns cage_score 0.0, "open_field" and  *)
(* prison_count 0.                                                         *)
(***************************************************************************)
MeanElegance ==
  FracScale(FracSum([i \in 1..Len(cage_prisons) |-> cage_prisons[i].elegance]),
            1, Len(cage_prisons))

C18_LabelIsClassOfReportedScore ==
  cage_result # <<>> =>
    LET result == cage_result[1]
    IN  IF cage_prisons = <<>>
          THEN /\ FracEq(result.cage_score, FracZero)
               /\ result.interpretation = "open_field"
               /\ result.prison_count = 0
          ELSE /\ FracEq(result.cage_score,
                         Rounded(FracMin(FracAdd(MeanElegance,
                                                 FracMin(Frac(Len(cage_prisons), 10),
                                                         Frac(1, 2))),
                                         FracOne)))
               /\ InUnitInterval(result.cage_score)
               /\ result.interpretation = Ladder(result.cage_score, CageLabels)

(***************************************************************************)
(* C19.  For a non-empty list of spells compute_spell_potency reports an   *)
(* aggregate equal to the mean potency, the label that is the threshold    *)
(* class of the reported aggregate under 0.8, 0.6, 0.4, 0.2, and a         *)
(* dominant spell of maximal potency.                                      *)
(***************************************************************************)
MeanPotency ==
  FracScale(FracSum([i \in 1..Len(pot_spells) |-> pot_spells[i].potency]),
            1, Len(pot_spells))

C19_LabelIsClassOfReportedAggregate ==
  (pot_result # <<>> /\ pot_spells # <<>>) =>
    LET result == pot_result[1]
    IN  /\ FracEq(result.aggregate_potency, Rounded(MeanPotency))
        /\ result.enchantment_level = Ladder(result.aggregate_potency, SpellLabels)
        /\ \E i \in 1..Len(pot_spells) : result.dominant_spell = pot_spells[i]
        /\ \A i \in 1..Len(pot_spells) :
             FracLe(pot_spells[i].potency, result.dominant_spell.potency)

(***************************************************************************)
(* C20.  The spell_diversity compute_spell_potency reports is the Shannon  *)
(* entropy (base 2) of the subtype distribution rounded to three decimals: *)
(* 0 when all spells share one subtype, and round(log2(N), 3) when N       *)
(* subtypes occur equally often, which is log2(N) itself for N = 1, 2, 4   *)
(* and 1.585 for N = 3.                                                    *)
(***************************************************************************)
\* math.log2(N) for N = 1..4, to the nearest 1e-9
Log2Nano == <<0, 1000000000, 1584962501, 2000000000>>

SpellTypesOf(spells) == { spells[i].spell_type : i \in 1..Len(spells) }

TimesFound(spells, spell_type) ==
  Cardinality({ i \in 1..Len(spells) : spells[i].spell_type = spell_type })

EquallyOften(spells) ==
  \A a, b \in SpellTypesOf(spells) : TimesFound(spells, a) = TimesFound(spells, b)

\* |x - y| <= 1e-9 for x in thousandths and y in units of 1e-9
WithinTolerance(thousandths, nano) ==
  /\ thousandths * 1000000 - nano <= 1
  /\ nano - thousandths * 1000000 <= 1

C20_DiversityIsRoundedLog2 ==
  (pot_result # <<>> /\ pot_spells # <<>> /\ EquallyOften(pot_spells)) =>
    LET n == Cardinality(SpellTypesOf(pot_spells))
        diversity == pot_result[1].spell_diversity
    IN  /\ diversity.den = 1000
        /\ diversity.num = Round3(Log2Nano[n] \div 1000, 1000000)
        /\ n = 1 => diversity.num = 0
        /\ n \in {1, 2, 4} => WithinTolerance(diversity.num, Log2Nano[n])

\* three subtypes, each found once
C20_Witness ==
  /\ pot_result # <<>>
  /\ Len(pot_spells) = 3
  /\ Cardinality(SpellTypesOf(pot_spells)) = 3
  /\ pot_result[1].spell_diversity = Frac(1585, 1000)

\* C20 as stated: the diversity is log2(N) within 1e-9.
C20_DiversityIsLog2 ==
  (pot_result # <<>> /\ pot_spells # <<>> /\ EquallyOften(pot_spells)) =>
    WithinTolerance(pot_result[1].spell_diversity.num,
                    Log2Nano[Cardinality(SpellTypesOf(pot_spells))])

(***************************************************************************)
(* C21.  generate_from_analysis appends to the store, and returns, in this *)
(* order: one QUESTION record per forbidden question of each frame, one    *)
(* PATTERN record per mask, one PARADOX record per spell, one TRAIL record *)
(* per exit condition of each prison, and then one BRIDGE record if and    *)
(* only if at least one record preceded it.  All records of the batch      *)
(* carry one chain id that no earlier record and no earlier chain has, and *)
(* a composite with no findings yields an empty batch and leaves the       *)
(* records and the chain index as they were.                               *)
(***************************************************************************)
RECURSIVE Repeat(_, _)
Repeat(x, n) == IF n = 0 THEN <<>> ELSE <<x>> \o Repeat(x, n - 1)

RECURSIVE SumLens(_, _)
SumLens(findings, field) ==
  IF findings = <<>> THEN 0
  ELSE Len(findings[1][field]) + SumLens(Tail(findings), field)

\* the record types of the batch a composite calls for
ExpectedTypes(composite) ==
  LET body == Repeat(QUESTION, SumLens(composite.frames, "forbidden_questions"))
                \o Repeat(PATTERN, Len(composite.masks))
                \o Repeat(PARADOX, Len(composite.spells))
                \o Repeat(TRAIL, SumLens(composite.prisons, "exit_conditions"))
  IN  IF body # <<>> THEN Append(body, BRIDGE) ELSE body

NoFindings(composite) ==
  /\ composite.frames = <<>>
  /\ composite.masks = <<>>
  /\ composite.spells = <<>>
  /\ composite.prisons = <<>>

C21_BatchOfGenerate ==
  [][call_op' = "generate_from_analysis" =>
       LET batch == call_result'
       IN  /\ crumbs' = crumbs \o batch
           /\ [i \in 1..Len(batch) |-> batch[i].crumb_type] = ExpectedTypes(call_arg')
           /\ \A i, j \in 1..Len(batch) : batch[i].chain_id = batch[j].chain_id
           /\ \A i \in 1..Len(batch) :
                /\ batch[i].chain_id \notin DOMAIN chains
                /\ batch[i].chain_id # trail_id
                /\ \A k \in 1..Len(crumbs) : crumbs[k].chain_id # batch[i].chain_id
           /\ NoFindings(call_arg') => (batch = <<>> /\ chains' = chains)]_vars

\* a batch with one record of each type, appended after an earlier record
C21_Witness ==
  /\ call_op = "generate_from_analysis"
  /\ [i \in 1..Len(call_result) |-> call_result[i].crumb_type]
       = <<QUESTION, PATTERN, PARADOX, TRAIL, BRIDGE>>
  /\ Len(crumbs) = 6
  /\ crumbs[1].chain_id = "chain-A"
  /\ \A i \in 2..6 : crumbs[i].chain_id = crumbs[2].chain_id

(***************************************************************************)
(* C22.  follow_chain(chain_id) returns exactly the stored records whose   *)
(* id is registered under chain_id, in store order (these are the stored   *)
(* records that carry chain_id); for a chain id that was never used it     *)
(* returns the empty list; it changes neither the records nor the chain    *)
(* index, so no empty chain entry appears.                                 *)
(***************************************************************************)
RegisteredUnder(chain_id) ==
  IF chain_id \in DOMAIN chains
    THEN { chains[chain_id][k] : k \in 1..Len(chains[chain_id]) }
    ELSE {}

C22_FollowChainExact ==
  [][call_op' = "follow_chain" =>
       /\ crumbs' = crumbs
       /\ chains' = chains
       /\ DOMAIN chains' = DOMAIN chains
       /\ call_result' =
            SelectSeq(crumbs, LAMBDA c : c.crumb_id \in RegisteredUnder(call_arg'))
       /\ call_result' = SelectSeq(crumbs, LAMBDA c : c.chain_id = call_arg')
       /\ call_arg' \notin DOMAIN chains => call_result' = <<>>]_vars

\* the chain "chain-A" holds the first and the third record of the store
C22_Witness ==
  /\ call_op = "follow_chain"
  /\ call_arg = "chain-A"
  /\ Len(crumbs) = 3
  /\ call_result = <<crumbs[1], crumbs[3]>>
  /\ crumbs[2].chain_id = trail_id

\* The records decode_trail is to return: the stored ones whose own marker,
\* computed with the store's id for a key, is among the given.
RecordsMarkedIn(encoded_markers) ==
  SelectSeq(crumbs,
    LAMBDA r : encode_crumb(trail_id, r, "") \in encoded_markers)

InSeq(x, seq) == \E i \in 1..Len(seq) : seq[i] = x

\* C23: decode_trail(M) returns, in the order of the store, exactly the stored
\* records whose marker, recomputed by encode_crumb with the store's id for a
\* key, is in M; so the marker an encode_crumb call without a key gave for a
\* stored record decodes to a list holding that record, and markers matching
\* no stored record decode to the empty list.
C23_DecodeReturnsMarked ==
  [][(dec_op' = "decode_trail" /\ UNCHANGED trailVars) =>
       /\ decoded' = RecordsMarkedIn(dec_markers')
       /\ \A i \in 1..Len(crumbs) :
            encode_crumb(trail_id, crumbs[i], "") \in dec_markers'
              => InSeq(crumbs[i], decoded')
       /\ (enc_op' = "encode_crumb" /\ enc_key' = "" /\ encoded' \in dec_markers')
              => InSeq(enc_crumb'[1], decoded')
       /\ (\A i \in 1..Len(crumbs) :
             encode_crumb(trail_id, crumbs[i], "") \notin dec_markers')
              => decoded' = <<>>]_vars

\* Both stored records decoded from their two markers, the second of which
\* an encode_crumb call gave.
C23_Witness ==
  /\ dec_op = "decode_trail"
  /\ Len(crumbs) = 2
  /\ enc_op = "encode_crumb" /\ enc_key = "" /\ enc_crumb = <<crumbs[2]>>
  /\ dec_markers = {encode_crumb(trail_id, crumbs[1], ""), encoded}
  /\ decoded = crumbs

IsPrefixOf(s, t) == Len(s) <= Len(t) /\ SubSeq(t, 1, Len(s)) = s

\* C24: the stores are append-only: no operation of the graph removes,
\* reorders or replaces a stored edge and no operation of the trail removes,
\* reorders or replaces a stored record; the edge list and the record list
\* before a step are prefixes of the lists after it.
C24_StoresAppendOnly ==
  [][/\ IsPrefixOf(edges, edges')
     /\ IsPrefixOf(crumbs, crumbs')]_vars

\* A graph of two edges that was scanned for masks.
C24_GraphGrew ==
  /\ Len(edges) = 2 /\ graph_op = "identify_masks" /\ Len(actors) >= 1

\* A trail of three records that was persisted and loaded.
C24_Witness ==
  /\ Len(crumbs) >= 3
  /\ persisted # <<>>
  /\ trail_loaded # <<>>

\* How many times the id x stands in the chain index chns.
RECURSIVE CountIn(_, _)
CountIn(x, seq) ==
  IF seq = <<>> THEN 0
  ELSE (IF seq[1] = x THEN 1 ELSE 0) + CountIn(x, Tail(seq))

RECURSIVE Registrations(_, _, _)
Registrations(x, chns, keys) ==
  IF keys = {} THEN 0
  ELSE LET k == CHOOSE k \in keys : TRUE
       IN  CountIn(x, chns[k]) + Registrations(x, chns, keys \ {k})

ChainIndexOk(st) ==
  /\ \A i \in 1..Len(st.crumbs) :
       LET r == st.crumbs[i]
       IN  /\ r.chain_id \notin {None, ""}
           /\ r.chain_id \in DOMAIN st.chains
           /\ CountIn(r.crumb_id, st.chains[r.chain_id]) = 1
           /\ Registrations(r.crumb_id, st.chains, DOMAIN st.chains) = 1
  /\ \A k \in DOMAIN st.chains : \A j \in 1..Len(st.chains[k]) :
       \E i \in 1..Len(st.crumbs) : st.crumbs[i].crumb_id = st.chains[k][j]

ChainIndexHolds ==
  /\ ChainIndexOk(TrailStore)
  /\ trail_loaded # <<>> => ChainIndexOk(trail_loaded[1])

\* drop_crumb gives the record the chain id it was called with, or the
\* store's own id when it was called with none or with an empty one
ChainIdGivenOrOwn ==
  (call_op' = "drop_crumb" /\ crumbs' # crumbs) =>
    LET r == crumbs'[Len(crumbs')]
    IN  r.chain_id = (IF call_arg'.chain_id \in {None, ""}
                        THEN trail_id ELSE call_arg'.chain_id)

\* C25: after any sequence of drop_crumb, generate_from_analysis and persist
\* followed by load, every stored record has a chain id (the one drop_crumb
\* was given, or the store's own id when none or an empty one was given), its
\* id is registered exactly once in the chain index and under that chain id,
\* and every id in the chain index is the id of a stored record; this holds
\* of the store and of the trail load returned.
C25_ChainIndex ==
  []ChainIndexHolds /\ [][ChainIdGivenOrOwn]_vars

\* A store taken from load that holds a record dropped with a chain id, one
\* dropped with an empty chain id and a batch, and a record dropped after
\* the load.
C25_Witness ==
  /\ trail_loaded # <<>>
  /\ Len(trail_loaded[1].crumbs) >= 4
  /\ Len(crumbs) > Len(trail_loaded[1].crumbs)
  /\ SubSeq(crumbs, 1, Len(trail_loaded[1].crumbs)) = trail_loaded[1].crumbs
  /\ Cardinality(DOMAIN chains) = 3
  /\ "chain-A" \in DOMAIN chains /\ trail_id \in DOMAIN chains
  /\ call_op = "drop_crumb" /\ call_arg.chain_id = ""

\* The map of a new aggregator constructed on the storage of the live one.
ReopenedMap == get_collective_map(Constructed(storage_path, coll_file))

\* C26: for a storage-backed aggregator after any number of contribute calls
\* (more than 100 included), a new aggregator constructed on the same storage
\* returns the same get_collective_map() as the live one: the same total,
\* distributions, most frequent subtypes and average awareness.
C26_ReopenedMapIsLiveMap ==
  (storage_path # None /\ coll_op = "contribute") =>
    ReopenedMap = get_collective_map(CollState)

CountersOf(st) ==
  <<st.frame_frequencies, st.mask_frequencies, st.spell_frequencies,
    st.prison_frequencies>>

DistributionsOf(map) ==
  <<map.frame_distribution, map.mask_distribution, map.spell_distribution,
    map.prison_distribution>>

\* C27: after any sequence of contribute calls, with composites that may hold
\* several findings of one subtype, every per-subtype counter is at most the
\* contribution count, so every proportion get_collective_map reports lies
\* in [0, 1] (proportions are in thousandths here).
C27_ProportionsAtMostOne ==
  /\ \A c \in 1..4 : \A i \in 1..Len(CountersOf(CollState)[c]) :
       CountersOf(CollState)[c][i].count <= total_analyses
  /\ coll_result # <<>> =>
       \A c \in 1..4 : \A i \in 1..Len(DistributionsOf(coll_result[1])[c]) :
         /\ DistributionsOf(coll_result[1])[c][i].pct >= 0
         /\ DistributionsOf(coll_result[1])[c][i].pct <= 1000

AllPersistReturned == \A t \in Threads : persist_pc[t] = "idle"

\* C28: when persist calls on one store run concurrently with each other and
\* with drop_crumb, then once all calls have returned the file holds the
\* snapshot taken by the persist call that took its snapshot last: no record
\* stored before that call began is missing from the file.
C28_FileHoldsLastSnapshot ==
  (AllPersistReturned /\ last_snapshot # <<>>) =>
    /\ trail_file # <<>>
    /\ trail_file[1].crumbs = last_snapshot[1].crumbs
    /\ trail_file[1].chains = last_snapshot[1].chains
    /\ \A i \in 1..Len(stored_before) :
         i <= Len(trail_file[1].crumbs)
           /\ trail_file[1].crumbs[i] = CrumbToDict(stored_before[i])

\* The counters that a history alone accounts for.
RECURSIVE CountersFrom(_, _)
CountersFrom(history, field) ==
  IF history = <<>> THEN <<>>
  ELSE IncrementAll(CountersFrom(SubSeq(history, 1, Len(history) - 1), field),
                    history[Len(history)][field])

\* The contribution of thread t is in memory: it is the last entry of the
\* history, the count is the length of the history and the counters are
\* those of the history.
InMemory(t) ==
  /\ analyses # <<>>
  /\ analyses[Len(analyses)].frame_types = Anonymized(frame[t].analysis, 0).frame_types
  /\ analyses[Len(analyses)].awareness_score = Anonymized(frame[t].analysis, 0).awareness_score
  /\ total_analyses = Len(analyses)
  /\ frame_frequencies = CountersFrom(analyses, "frame_types")
  /\ mask_frequencies = CountersFrom(analyses, "mask_types")
  /\ spell_frequencies = CountersFrom(analyses, "spell_types")
  /\ prison_frequencies = CountersFrom(analyses, "prison_types")

\* The file at storage_path holds no snapshot with as many contributions as
\* the memory.
NotPersisted ==
  \/ coll_file = <<>>
  \/ coll_file[1].kind # "object"
  \/ /\ coll_file[1].data.total_analyses < total_analyses
     /\ Len(coll_file[1].data.analyses) < Len(analyses)

\* C29: when the write inside contribute fails, the error reaches the caller
\* with no retry and no rollback: history, count and counters in memory hold
\* the failed contribution, the persisted snapshot does not, and the lock is
\* released.
C29_FailedSaveKeepsMemory ==
  [][\A t \in Threads :
       (pc[t] = "save" /\ pc'[t] = "idle") =>
         /\ coll_raised' = "OSError"
         /\ InMemory(t)
         /\ CollState' = CollState
         /\ NotPersisted'
         /\ lock = t /\ lock' = None
         /\ coll_result' = coll_result /\ returned' = returned]_vars

\* A contribution whose write failed, then one that was written: the second
\* call returned the count 2, the file holds both.
C29_Witness ==
  /\ coll_raised = "OSError"
  /\ returned = <<2>>
  /\ total_analyses = 2
  /\ coll_file # <<>> /\ coll_file[1].kind = "object"
  /\ coll_file[1].data.total_analyses = 2
  /\ \A t \in Threads : pc[t] = "idle"

\* The records the analyses of a result carry, one batch after the other.
RECURSIVE CrumbsOf(_)
CrumbsOf(results) ==
  IF results = <<>> THEN <<>>
  ELSE CrumbsOf(SubSeq(results, 1, Len(results) - 1))
         \o results[Len(results)].crumbs

AggregatorUnchanged ==
  /\ CollState' = CollState
  /\ coll_file' = coll_file
  /\ coll_clock' = coll_clock

\* analyze: records only at the four deeper depths, a contribution only when
\* asked for and then exactly one
AnalyzeFrame ==
  /\ IsPrefixOf(crumbs, crumbs')
  /\ key_result'.crumbs = SubSeq(crumbs', Len(crumbs) + 1, Len(crumbs'))
  /\ key_args'.depth \in {"surface", "pattern"} =>
       /\ crumbs' = crumbs /\ chains' = chains
       /\ trail_file' = trail_file
       /\ key_result'.crumbs = <<>>
  /\ crumbs' # crumbs =>
       key_args'.depth \in {"structure", "generative", "recursive", "integral"}
  /\ IF key_args'.contribute
       THEN /\ total_analyses' = total_analyses + 1
            /\ Len(analyses') = Len(analyses) + 1
       ELSE AggregatorUnchanged

\* scan_corpus over N texts: N contributions
ScanFrame ==
  /\ total_analyses' = total_analyses + Len(key_args'.texts)
  /\ Len(analyses') = Len(analyses) + Len(key_args'.texts)
  /\ crumbs' = crumbs \o CrumbsOf(key_result'.individual_analyses)
  /\ key_result'.collective_map.total_analyses = total_analyses'

\* C30: analyze appends records to the trail only at depth structure,
\* generative, recursive or integral (at surface and pattern the trail is
\* unchanged and the result has no crumbs); it changes the aggregator only
\* when contribute_to_collective is true, and then raises the contribution
\* count by exactly 1, so scan_corpus over N texts raises it by exactly N;
\* and it never adds an edge to the graph.
C30_AnalyzeFrameConditions ==
  [][/\ key_calls' # key_calls => edges' = edges
     /\ (key_op' = "analyze" /\ key_calls' # key_calls) => AnalyzeFrame
     /\ (key_op' = "scan_corpus" /\ key_args' # key_args) => ScanFrame
     /\ (key_op' = "scan_corpus" /\ key_calls' = key_calls) =>
          (crumbs' = crumbs /\ CollState' = CollState /\ edges' = edges)]_vars

\* An analysis at pattern depth that contributed, after one at recursive
\* depth that did not: the trail holds the records of the first only, the
\* aggregator the contribution of the second only, the graph actors and no
\* edge.
C30_Witness ==
  /\ key_op = "analyze" /\ key_calls = 2
  /\ key_args.depth = "pattern" /\ key_args.contribute
  /\ key_result.crumbs = <<>>
  /\ Len(crumbs) = 2
  /\ total_analyses = 1
  /\ analyses[1].seeing_depth = "pattern"
  /\ actors # <<>>
  /\ edges = <<>>

\* A corpus of two texts scanned: two contributions.
C30_ScanReached ==
  /\ key_op = "scan_corpus" /\ Len(key_args.texts) = 2
  /\ total_analyses = 2
  /\ Len(crumbs) >= 2

=============================================================================
